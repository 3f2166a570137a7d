-------------------------------- MODULE Loader --------------------------------
(***************************************************************************)
(* Program loading: the ELF file of a program becomes its image and its    *)
(* first stack page (exeparser/ElfParser.cpp, filesystem/BufferedReader.cpp*)
(* and process/UserProcess.cpp), and its threads bind calls to shared      *)
(* libraries as they make them (process/DynamicLinkLoader.cpp). The bytes  *)
(* of a file are told apart by their offset; an image says of each byte    *)
(* whether it is junk, zero, of the stub or of the file, and then how far  *)
(* it is off its place. The pages that hold all this are MemManager's.     *)
(***************************************************************************)
EXTENDS Integers, Sequences, FiniteSets, SequencesExt, FiniteSetsExt

CONSTANTS Thread, Library,
          Program,   \* the name of the program among the images
          File,      \* program files: [header, program, symbols: [off, len], size, bss: [addr, size],
                     \*   seg: <<[vaddr, offset, filesz, memsz]>>]
          DLLFile,   \* DLLFile[lib]: the file of a library
          Needed,    \* the DT_NEEDED entries of the program, in order
          Defines,   \* Defines[lib]: the symbols of a library with their values
          Imports,   \* Imports[image]: the symbols that an image calls
          Args,      \* argument lists: the lengths of the arguments
          PageSize, Base,  \* PROCESS_BASE
          MaxSize,   \* bytes of MAX_PAGES_PER_PROCESS
          StubSize,  \* bytes in the file of the section that goes behind each image
          Buffer,    \* bytes a BufferedReader reads ahead
          MaxErrors, NONE

VARIABLES program,   \* the file that is loaded, its arguments, its image and its first stack page
          dlls,      \* _loadedDLLs with _dllInfoMap: [lib, page, pages, image]
          got,       \* got[image][symbol]: the entry in the image's offset table
          holder,    \* dllMutex
          at, call, next,  \* where a thread is; the call it binds; the position in Needed
          errors
vars == <<program, dlls, got, holder, at, call, next, errors>>

-------------------------------------------------------------------------------
(* BufferedReader: the first Buffer bytes from start on are kept; FileRead is what the file
   gives, everything that is left when 0 bytes are asked for. *)
Least(a, b) == IF a < b THEN a ELSE b
Bytes(off, n) == [i \in 1 .. n |-> off + i - 1]
FileRead(size, off, len) ==
  IF off >= size THEN <<>> ELSE Bytes(off, IF len > 0 /\ len < size - off THEN len ELSE size - off)

OVERFLOW_ADJUST == 2
Throws == <<-1>>
FaultyPartlyBuffered(size, start, end, off, len) ==  \* the file is read on from where the request began
  LET n == end - off - OVERFLOW_ADJUST IN Bytes(off, n) \o FileRead(size, off, len - n)
PartlyBuffered(size, start, end, off, len) ==
  IF off >= start /\ off <= end - OVERFLOW_ADJUST /\ off + len > end
  THEN LET n == end - off - OVERFLOW_ADJUST IN Bytes(off, n) \o FileRead(size, off + n, len - n)
  ELSE IF off < start /\ off + len >= start /\ off + len <= end
  THEN FileRead(size, off, start - off) \o Bytes(start, len - (start - off))
  ELSE IF off < start /\ off + len > end
  THEN LET n == end - off - OVERFLOW_ADJUST IN
       FileRead(size, off, start - off) \o Bytes(start, n - (start - off)) \o FileRead(size, off + n, len - n)
  ELSE Throws
DoRead(size, start, off, len) ==
  LET end == start + Len(FileRead(size, start, Buffer)) IN
  IF off >= start /\ off + len <= end THEN Bytes(off, len)
  ELSE IF off + len < start \/ off > end THEN FileRead(size, off, len)
  ELSE PartlyBuffered(size, start, end, off, len)

(* ELFParser. The headers of the file, its program headers and its symbol tables have to be
   there; too few section headers are not noticed. The image goes from the first loadable segment to the end of the last one. *)
Gets(f, off, len) == LET b == DoRead(f.size, 0, off, len) IN b # Throws /\ Len(b) >= len
Parses(f) == \A p \in {"header", "program", "symbols"} : Gets(f, f[p].off, f[p].len)
FaultyGetMemImageSize(f) ==  \* as long as what the file holds of it
  [min |-> f.seg[1].vaddr, max |-> Last(f.seg).vaddr + Last(f.seg).filesz]
GetMemImageSize(f) == [min |-> f.seg[1].vaddr, max |-> Last(f.seg).vaddr + Last(f.seg).memsz]
LoadInitSection == Len(FileRead(StubSize, 0, 0))  \* the section put behind each image, read whole
CeilAligned(a) == ((a + 3) \div 4) * 4
ImageSize(f) == CeilAligned(GetMemImageSize(f).max - GetMemImageSize(f).min)

(* CopyProcessImage into a new buffer, of which each byte is junk first: where the bytes of
   the segments go; Throws when a segment starts beyond the buffer or the file ends early. *)
SegmentBytes(f, s) == DoRead(f.size, 0, s.offset, s.filesz)
CopyFails(f, base, size) ==
  \E i \in 1 .. Len(f.seg) : f.seg[i].vaddr - base >= size \/ ~Gets(f, f.seg[i].offset, f.seg[i].filesz)
Copied(f, base, size) ==
  [o \in 0 .. size - 1 |->
     LET over == {i \in 1 .. Len(f.seg) : LET d == o - (f.seg[i].vaddr - base) IN d >= 0 /\ d < f.seg[i].filesz}
         s == f.seg[CHOOSE i \in over : \A j \in over : j <= i]
         d == o - (s.vaddr - base)
     IN IF over = {} THEN <<"junk">> ELSE <<"file", SegmentBytes(f, s)[d + 1] - s.offset - d>>]

Zeroed(f, base, o) == o >= f.bss.addr - base /\ o < f.bss.addr - base + f.bss.size
ProgramImage(f) ==
  LET base == GetMemImageSize(f).min  c == Copied(f, base, ImageSize(f) + LoadInitSection) IN
  [o \in DOMAIN c |-> IF Zeroed(f, base, o) THEN <<"zero">> ELSE IF o >= ImageSize(f) THEN <<"stub">> ELSE c[o]]
LibraryImage(f) ==
  LET c == Copied(f, 0, ImageSize(f) + LoadInitSection) IN
  [o \in DOMAIN c |-> IF o >= ImageSize(f) THEN <<"stub">> ELSE c[o]]
Pages(f) == ((ImageSize(f) + LoadInitSection - 1) \div PageSize) + 1

(* PushProgramInitStackData: the end of the page of the first stack holds the number of the
   arguments, the address of the vector, the vector and the strings. top is the address that
   the process has for the end of that page. *)
StackTop == 1000
TextBefore(args, i) == FoldLeft(LAMBDA s, n : s + n + 1, 0, SubSeq(args, 1, i - 1))
EntryStackSize(args) == 8 + 4 * Len(args) + TextBefore(args, Len(args) + 1)
FaultyVector(args, i) == StackTop - EntryStackSize(args) + 8 + TextBefore(args, i)  \* the vector is not skipped
Vector(args, i) == StackTop - EntryStackSize(args) + 8 + 4 * Len(args) + TextBefore(args, i)
Stack(args) ==
  [argc |-> Len(args), argv |-> StackTop - EntryStackSize(args) + 8,
   vector |-> [i \in 1 .. Len(args) |-> Vector(args, i)],
   text |-> [o \in 8 + 4 * Len(args) .. EntryStackSize(args) - 1 |->
               LET i == CHOOSE k \in 1 .. Len(args) : LET r == o - 8 - 4 * Len(args) IN
                          TextBefore(args, k) <= r /\ r < TextBefore(args, k + 1) IN
               <<i, o - 8 - 4 * Len(args) - TextBefore(args, i)>>]]

-------------------------------------------------------------------------------
(* The process. Addresses of libraries count pages from the first page for DLLs. *)
Image == Library \cup {Program}
DLLStart == 100000
LoadAddress(d) == DLLStart + d.page * PageSize
Lazy(img, base) == base + 1  \* the entry's way back into the procedure table of its image
Loaded(lib) == \E i \in 1 .. Len(dlls) : dlls[i].lib = lib
getDLLInfo(lib) == dlls[CHOOSE i \in 1 .. Len(dlls) : dlls[i].lib = lib]
HasImage(img) == IF img = Program THEN program.state = "loaded" ELSE Loaded(img) /\ getDLLInfo(img).image # <<>>
BaseOf(img) == IF img = Program THEN Base ELSE LoadAddress(getDLLInfo(img))
Symbols == UNION {Imports[i] : i \in Image}

Init ==
  /\ program = [state |-> "new"] /\ dlls = <<>> /\ got = [i \in Image |-> [s \in Imports[i] |-> 0]]
  /\ holder = NONE /\ at = [t \in Thread |-> "run"] /\ call = [t \in Thread |-> NONE] /\ next = [t \in Thread |-> 0]
  /\ errors = 0

Defined == \A t \in Thread : at[t] # "undefined"
Goto(t, s) == at' = [at EXCEPT ![t] = s]

(* UserProcess::Load. *)
Acceptable(f) ==
  /\ Parses(f)
  /\ GetMemImageSize(f).min >= Base /\ GetMemImageSize(f).min % PageSize = 0
  /\ Pages(f) * PageSize <= MaxSize
Load(f, args) ==
  /\ program.state = "new"
  /\ IF ~Acceptable(f) \/ CopyFails(f, GetMemImageSize(f).min, ImageSize(f) + LoadInitSection) \/ EntryStackSize(args) > PageSize
     THEN program' = [state |-> "refused"] /\ UNCHANGED got
     ELSE /\ program' = [state |-> "loaded", file |-> f, args |-> args, image |-> ProgramImage(f),
                         stack |-> Stack(args), resolver |-> ImageSize(f)]
          /\ got' = [got EXCEPT ![Program] = [s \in Imports[Program] |-> Lazy(Program, Base)]]
  /\ UNCHANGED <<dlls, holder, at, call, next, errors>>

(* A call through an entry that still leads back to its own image enters DoRelocation. *)
FaultyDoRelocation(t, img, s) ==  \* without the lock
  /\ Defined /\ at[t] = "run" /\ HasImage(img) /\ s \in Imports[img]
  /\ got[img][s] = Lazy(img, BaseOf(img))
  /\ holder' = t /\ call' = [call EXCEPT ![t] = [image |-> img, symbol |-> s]]
  /\ next' = [next EXCEPT ![t] = 1] /\ Goto(t, "lookup")
  /\ UNCHANGED <<program, dlls, got, errors>>
DoRelocation(t, img, s) ==
  /\ Defined /\ at[t] = "run" /\ HasImage(img) /\ s \in Imports[img]
  /\ got[img][s] = Lazy(img, BaseOf(img)) /\ holder = NONE
  /\ holder' = t /\ call' = [call EXCEPT ![t] = [image |-> img, symbol |-> s]]
  /\ next' = [next EXCEPT ![t] = 1] /\ Goto(t, "lookup")
  /\ UNCHANGED <<program, dlls, got, errors>>

Leave(t, s) == Goto(t, s) /\ holder' = NONE
Fails == errors < MaxErrors /\ errors' = errors + 1

(* GetSymbolOffset of the next library that the program needs: from its file as long as it
   is not loaded, else from its image. An image that was never copied is junk. *)
FaultyFound(t, lib) == call[t].symbol \in DOMAIN Defines[lib] /\ (Loaded(lib) \/ \A l \in Library : ~Loaded(l))
Found(t, lib) == call[t].symbol \in DOMAIN Defines[lib]
GetSymbolOffset(t) ==
  /\ Defined /\ at[t] = "lookup"
  /\ \/ /\ next[t] > Len(Needed) /\ Leave(t, "failed") /\ UNCHANGED <<next, errors>>
     \/ /\ next[t] <= Len(Needed)
        /\ LET lib == Needed[next[t]] IN
           \/ /\ ~Loaded(lib) /\ Fails /\ Leave(t, "failed") /\ UNCHANGED next
           \/ /\ Loaded(lib) /\ ~HasImage(lib)
              /\ Goto(t, "undefined") /\ UNCHANGED <<holder, next, errors>>
           \/ /\ ~Loaded(lib) \/ HasImage(lib)
              /\ IF Found(t, lib) THEN Goto(t, IF Loaded(lib) THEN "bind" ELSE "load") /\ UNCHANGED next
                 ELSE next' = [next EXCEPT ![t] = @ + 1] /\ UNCHANGED at
              /\ UNCHANGED <<holder, errors>>
  /\ UNCHANGED <<program, dlls, got, call>>

(* LoadELFDLL: the pages are mapped by the kernel service, and with them the library counts
   as loaded; the image is read, relocated and copied after that. *)
DLLPages(f) == Pages(f) + 1  \* the last page keeps the section headers
FaultyMapDLL(lib) == [lib |-> lib, page |-> FoldLeft(LAMBDA n, d : n + d.pages - 1, 0, dlls),
                      pages |-> DLLPages(DLLFile[lib]), image |-> <<>>]
MapDLL(lib) ==
  [lib |-> lib, page |-> FoldLeft(LAMBDA n, d : n + d.pages, 0, dlls), pages |-> DLLPages(DLLFile[lib]), image |-> <<>>]
LoadDLL(t) ==
  /\ Defined /\ at[t] = "load"
  /\ \/ /\ dlls' = Append(dlls, MapDLL(Needed[next[t]])) /\ Goto(t, "copy") /\ UNCHANGED <<holder, errors>>
     \/ /\ Fails /\ Leave(t, "failed") /\ UNCHANGED dlls
  /\ UNCHANGED <<program, got, call, next>>
FaultyRebased(img, base) == [s \in Imports[img] |-> Lazy(img, 0)]  \* the entries keep their values
Rebased(img, base) == [s \in Imports[img] |-> Lazy(img, base)]
CopyDLL(t) ==
  LET lib == Needed[next[t]]  i == CHOOSE k \in 1 .. Len(dlls) : dlls[k].lib = lib IN
  /\ Defined /\ at[t] = "copy"
  /\ \/ /\ ~CopyFails(DLLFile[lib], 0, ImageSize(DLLFile[lib]) + LoadInitSection)
        /\ dlls' = [dlls EXCEPT ![i].image = LibraryImage(DLLFile[lib])]
        /\ got' = [got EXCEPT ![lib] = Rebased(lib, LoadAddress(dlls[i]))]
        /\ Goto(t, "bind") /\ UNCHANGED <<holder, errors>>
     \/ Fails /\ Leave(t, "failed") /\ UNCHANGED <<dlls, got>>
  /\ UNCHANGED <<program, call, next>>

(* The address is stored in the table and given to the call. *)
Bind(t) ==
  LET lib == Needed[next[t]] IN
  /\ Defined /\ at[t] = "bind"
  /\ got' = [got EXCEPT ![call[t].image][call[t].symbol] = LoadAddress(getDLLInfo(lib)) + Defines[lib][call[t].symbol]]
  /\ Leave(t, "run") /\ call' = [call EXCEPT ![t] = NONE]
  /\ UNCHANGED <<program, dlls, next, errors>>

Next ==
  \/ \E f \in File, args \in Args : Load(f, args)
  \/ \E t \in Thread : \/ \E img \in Image, s \in Symbols : DoRelocation(t, img, s)
                       \/ GetSymbolOffset(t) \/ LoadDLL(t) \/ CopyDLL(t) \/ Bind(t)
Spec == Init /\ [][Next]_vars

-------------------------------------------------------------------------------
(* Types of the process. *)
TypeOK ==
  /\ program.state \in {"new", "refused", "loaded"} /\ holder \in Thread \cup {NONE} /\ errors \in 0 .. MaxErrors
  /\ at \in [Thread -> {"run", "lookup", "load", "copy", "bind", "failed", "undefined"}]
  /\ \A i \in Image : got[i] \in [Imports[i] -> Nat]

(* A program that is loaded has, from its first segment on, each byte of its file at the
   address the file says, zeroes in the rest of a segment, which is the section .bss, and
   the stub where the offset table says the resolver is (UserProcess.cpp:66-130). Of a
   library the rest of a segment is left as the heap gave it. *)
ImageRight ==
  program.state = "loaded" =>
    LET f == program.file  base == GetMemImageSize(f).min IN
    /\ \A i \in 1 .. Len(f.seg) : \A k \in 0 .. f.seg[i].memsz - 1 :
         LET o == f.seg[i].vaddr - base + k IN
         o \in DOMAIN program.image /\ program.image[o] = IF k < f.seg[i].filesz THEN <<"file", 0>> ELSE <<"zero">>
    /\ \A k \in 0 .. StubSize - 1 : program.image[program.resolver + k] = <<"stub">>

(* Starting from the word at its stack pointer a program finds each of its arguments whole
   (UserProcess.cpp:176-212). *)
ArgumentsFound ==
  program.state = "loaded" =>
    LET k == program.stack  esp == StackTop - EntryStackSize(program.args) IN
    /\ k.argc = Len(program.args) /\ k.argv = esp + 8
    /\ \A i \in 1 .. k.argc : \A j \in 0 .. program.args[i] :
         k.vector[i] + j - esp \in DOMAIN k.text /\ k.text[k.vector[i] + j - esp] = <<i, j>>

(* Every entry of the offset table of an image leads back into that image or to the first
   library of the program's list that defines the symbol, wherever that was loaded, however
   the threads interleave and whatever failed before (DynamicLinkLoader.cpp:121-219). *)
FirstDefining(s) == Needed[CHOOSE i \in 1 .. Len(Needed) :
                             s \in DOMAIN Defines[Needed[i]] /\ \A j \in 1 .. i - 1 : s \notin DOMAIN Defines[Needed[j]]]
SymbolsAgree ==
  \A img \in {i \in Image : HasImage(i)} : \A s \in Imports[img] :
    \/ got[img][s] = Lazy(img, BaseOf(img))
    \/ /\ \E i \in 1 .. Len(Needed) : s \in DOMAIN Defines[Needed[i]]
       /\ HasImage(FirstDefining(s))
       /\ got[img][s] = LoadAddress(getDLLInfo(FirstDefining(s))) + Defines[FirstDefining(s)][s]

(* A library is loaded once in a process and in pages of its own; the lock is held by the
   thread that is binding (DynamicLinkLoader.cpp:123, UserProcess.cpp:462-493). *)
LoadedOnce ==
  /\ \A i, j \in 1 .. Len(dlls) : i # j =>
       /\ dlls[i].lib # dlls[j].lib
       /\ dlls[i].page + dlls[i].pages <= dlls[j].page \/ dlls[j].page + dlls[j].pages <= dlls[i].page
  /\ \A t \in Thread : at[t] \in {"lookup", "load", "copy", "bind"} => holder = t

(* A reading through the buffer gives the bytes of the file, unless it starts at the last
   byte of the buffer or just behind it and goes on: that one is refused
   (BufferedReader.cpp:66-147). *)
ReaderRight ==
  \A size \in 2 .. 3 * Buffer, start \in 0 .. 2, off \in 0 .. 2 * Buffer, len \in 1 .. Buffer + 2 :
    LET end == start + Len(FileRead(size, start, Buffer)) IN
    end - start >= OVERFLOW_ADJUST /\ ~(off \in {end - 1, end} /\ off + len > end) =>
      DoRead(size, start, off, len) = FileRead(size, off, len)
================================================================================
