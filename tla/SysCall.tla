-------------------------------- MODULE SysCall --------------------------------
(***************************************************************************)
(* System calls (syscall/): a user process enters through the call gate    *)
(* and SysCall_Entry, a kernel process calls the same handlers from its    *)
(* library (libsys) without one. A handler knows which of its parameters   *)
(* are addresses and relocates them from the caller's segment to the       *)
(* kernel's; a call is reduced to the kinds of its parameters, to how an   *)
(* error comes back, and to the addresses that pass in and out. The        *)
(* library of user processes is not in the repository: it is taken to pass *)
(* what libsys passes.                                                     *)
(***************************************************************************)
EXTENDS Integers, Sequences, FiniteSets, TLC

CONSTANTS Word,          \* addresses wrap around here
          ProcessBase,   \* PROCESS_BASE
          KernelBase,    \* GLOBAL_DATA_SEGMENT_BASE
          Address,       \* addresses that callers pass
          MaxCalls       \* calls (bound)

VARIABLES caller,  \* "user", "kernel" (libsys), "gate" (a kernel process at the gate)
          at, call,
          vector,  \* the argument list for exec in the caller's memory: its one address
          reused,  \* whether exec already ran on that list
          seen,    \* the parameters the operation got
          result, calls

vars == <<caller, at, call, vector, reused, seen, result, calls>>

-------------------------------------------------------------------------------
(* The handlers: what each parameter is (P an address, V a value, A the address of a list of
   addresses) and what becomes of an exception of the operation: the handler turns it into
   -1, lets it through, or loses it; an operation may also have no error. *)
P == "address"
V == "value"
A == "list"
H(params, error) == [params |-> params, error |-> error]

DisplayCalls ==
  [display_message |-> H(<<P, V>>, "none"),      display_character |-> H(<<V, V>>, "none"),
   display_clr_scr |-> H(<<>>, "none"),          display_mov_cursor |-> H(<<V>>, "none"),
   display_clr_line |-> H(<<V>>, "none"),        display_set_cursor |-> H(<<V, V>>, "none"),
   display_get_cursor |-> H(<<>>, "none"),       display_raw_char |-> H(<<V, V, V>>, "none"),
   display_raw_char_area |-> H(<<P, V, V, V>>, "none"),
   display_console_size |-> H(<<P, P>>, "none"), display_framebuffer_info |-> H(<<P>>, "none")]
DirectoryCalls ==
  [change_dir |-> H(<<P>>, "caught"), pwd |-> H(<<P>>, "caught"), cwd |-> H(<<P, V>>, "caught"),
   mkdir |-> H(<<P, V>>, "caught"),   file_create |-> H(<<P, V>>, "caught"),
   rmdir |-> H(<<P>>, "caught"),      get_dir_list |-> H(<<P, P, P>>, "caught")]
FileCalls ==
  [file_open |-> H(<<P, V>>, "caught"),     file_close |-> H(<<V>>, "caught"),
   file_read |-> H(<<V, P, V>>, "caught"),  file_write |-> H(<<V, P, V>>, "caught"),
   file_seek |-> H(<<V, V, V>>, "caught"),  file_tell |-> H(<<V>>, "caught"),
   file_mode |-> H(<<V>>, "caught"),        file_stat |-> H(<<P, P>>, "caught"),
   file_stat_fd |-> H(<<V, P>>, "caught"),  file_access |-> H(<<P, V>>, "caught"),
   file_dup2 |-> H(<<V, V>>, "caught"),     file_reset_std |-> H(<<V>>, "caught")]
ProcessCalls ==
  [dll_relocate |-> H(<<V, V, V, V, V, V, V, V, V>>, "lost"),
   process_exec |-> H(<<P, V, A>>, "thrown"),      thread_exec |-> H(<<V, V, V>>, "thrown"),
   process_wait_pid |-> H(<<V>>, "thrown"),        process_exit |-> H(<<>>, "none"),
   process_yield |-> H(<<>>, "none"),              process_sleep |-> H(<<V>>, "none"),
   process_pid |-> H(<<>>, "none"),                process_get_env |-> H(<<P>>, "none"),
   process_set_env |-> H(<<P, P>>, "caught"),      process_get_ps_list |-> H(<<P, P>>, "thrown"),
   process_free_ps_list |-> H(<<P, V>>, "thrown"), process_child_alive |-> H(<<V>>, "none"),
   process_alive |-> H(<<V>>, "none")]
MemoryCalls ==
  [alloc |-> H(<<P, V>>, "thrown"), free |-> H(<<V>>, "caught"), get_alloc_size |-> H(<<V, P>>, "caught")]
KeyboardCalls == [kb_read |-> H(<<P>>, "none")]
DriveCalls ==
  [change_drive |-> H(<<P>>, "caught"), show_drives |-> H(<<P, P>>, "caught"),
   mount_drive |-> H(<<P>>, "caught"),  unmount_drive |-> H(<<P>>, "caught"),
   format_drive |-> H(<<P>>, "caught"), current_drive_stat |-> H(<<P>>, "caught")]
UtilCalls ==
  [util_dtime |-> H(<<P>>, "none"), util_btime |-> H(<<>>, "none"), util_tod |-> H(<<P>>, "caught"),
   util_reboot |-> H(<<>>, "none")]
FaultyHandler ==  \* fstat and stat share their case
  [DisplayCalls @@ DirectoryCalls @@ FileCalls @@ ProcessCalls @@ MemoryCalls @@ KeyboardCalls @@ DriveCalls
   @@ UtilCalls EXCEPT !["file_stat_fd"] = H(<<P, P>>, "caught")]
Handler == DisplayCalls @@ DirectoryCalls @@ FileCalls @@ ProcessCalls @@ MemoryCalls @@ KeyboardCalls
           @@ DriveCalls @@ UtilCalls

(* What the library passes, call by call; the parameters that are left get numbers. *)
SysDisplay ==
  [display_message |-> <<P, V>>, display_character |-> <<V, V>>, display_clr_scr |-> <<>>,
   display_mov_cursor |-> <<V>>, display_clr_line |-> <<V>>, display_set_cursor |-> <<V, V>>,
   display_get_cursor |-> <<>>, display_raw_char |-> <<V, V, V>>, display_raw_char_area |-> <<P, V, V, V>>,
   display_framebuffer_info |-> <<P>>]
SysFS ==
  [change_dir |-> <<P>>, pwd |-> <<P>>, mkdir |-> <<P, V>>, rmdir |-> <<P>>, get_dir_list |-> <<P, P, P>>,
   file_create |-> <<P, V>>, file_open |-> <<P, V>>, file_close |-> <<V>>, file_read |-> <<V, P, V>>,
   file_write |-> <<V, P, V>>, file_seek |-> <<V, V, V>>, file_tell |-> <<V>>, file_mode |-> <<V>>,
   file_stat |-> <<P, P>>, file_stat_fd |-> <<V, P>>]
SysProcess ==
  [process_exec |-> <<P, V, A>>, process_wait_pid |-> <<V>>, process_exit |-> <<V>>, process_yield |-> <<>>,
   process_sleep |-> <<V>>, process_pid |-> <<>>, process_get_env |-> <<P>>, process_set_env |-> <<P, P>>,
   process_get_ps_list |-> <<P, P>>, process_free_ps_list |-> <<P, V>>, process_alive |-> <<V>>,
   thread_exec |-> <<V, V, V>>, process_child_alive |-> <<V>>]
SysDrive ==
  [change_drive |-> <<P>>, show_drives |-> <<P, P>>, mount_drive |-> <<P>>, unmount_drive |-> <<P>>,
   format_drive |-> <<P>>, current_drive_stat |-> <<P>>]
SysRest == [kb_read |-> <<P>>, util_dtime |-> <<P>>, util_reboot |-> <<>>, util_tod |-> <<P>>]
Stub == [dll_relocate |-> <<V, V, V, V, V, V, V, V, V>>]
Library == SysDisplay @@ SysFS @@ SysProcess @@ SysDrive @@ SysRest @@ Stub

-------------------------------------------------------------------------------
(* KERNEL_ADDR: through the gate, and only for a process that is not a kernel process. *)
FaultyKERNEL_ADDR(x) == IF caller = "user" THEN (x + KernelBase - ProcessBase) % Word ELSE x
KERNEL_ADDR(x) == IF caller = "user" THEN (x + ProcessBase - KernelBase) % Word ELSE x

(* The linear address of an address of the kernel, and of one of the caller. *)
KernelLinear(k) == (k + KernelBase) % Word
CallerLinear(x) == IF caller = "user" THEN (x + ProcessBase) % Word ELSE KernelLinear(x)

Init ==
  /\ caller \in {"user", "kernel", "gate"} /\ at = "idle" /\ call = <<>> /\ vector \in Address /\ reused = FALSE
  /\ seen = <<>> /\ result = <<>> /\ calls = 0

Call ==
  /\ at = "idle" /\ calls < MaxCalls /\ calls' = calls + 1
  /\ \E id \in DOMAIN Library, x, y \in Address :
       call' = <<id, [i \in DOMAIN Library[id] |-> IF Library[id][i] = A THEN vector ELSE IF i % 2 = 1 THEN x ELSE y]>>
  /\ at' = "entered" /\ seen' = <<>> /\ result' = <<>> /\ UNCHANGED <<caller, vector, reused>>

(* The parameters as the operation gets them, for a list the address in it; the list is
   relocated where it stands, in the memory of the caller. *)
Passed(args, i) == IF i \in DOMAIN args THEN args[i] ELSE i
SysCall_Handle ==
  LET id == call[1]  params == Handler[id].params IN
  /\ at = "entered" /\ at' = "handled"
  /\ seen' = [i \in DOMAIN params |-> IF params[i] = V THEN Passed(call[2], i) ELSE KERNEL_ADDR(Passed(call[2], i))]
  /\ vector' = IF \E i \in DOMAIN params : params[i] = A THEN KERNEL_ADDR(vector) ELSE vector
  /\ UNCHANGED <<caller, call, reused, result, calls>>

(* The operation ends; SysCall_Entry turns an exception into -1, the library lets it through. *)
FaultyOutcome(error) == IF error = "caught" THEN "-1" ELSE IF error = "lost" THEN "0" ELSE "exception"
Outcome(error) ==
  CASE error = "caught" -> "-1"
    [] error = "lost" -> "0"
    [] error = "thrown" -> IF caller = "kernel" THEN "exception" ELSE "-1"

(* process_get_env returns an address: of the kernel for the library, else moved back into
   the segment of a user process. *)
EnvAddress(k) == IF caller = "kernel" THEN k ELSE (k + KernelBase - ProcessBase) % Word
SysCall_Entry ==
  LET id == call[1] IN
  /\ at = "handled" /\ at' = "idle"
  /\ \/ /\ Handler[id].error # "none" /\ result' = <<"failed", Outcome(Handler[id].error)>>
     \/ IF id = "process_get_env" THEN \E k \in Address : result' = <<"env", k, EnvAddress(k)>>
        ELSE result' = <<"done">>
  /\ reused' = (reused \/ \E i \in DOMAIN Library[id] : Library[id][i] = A)
  /\ UNCHANGED <<caller, call, vector, seen, calls>>

(* The caller builds a new argument list. *)
NewVector ==
  /\ at = "idle" /\ reused /\ reused' = FALSE /\ vector' \in Address
  /\ UNCHANGED <<caller, at, call, seen, result, calls>>

Next == Call \/ SysCall_Handle \/ SysCall_Entry \/ NewVector
Spec == Init /\ [][Next]_vars

-------------------------------------------------------------------------------
(* Types of a call in progress. *)
TypeOK ==
  /\ caller \in {"user", "kernel", "gate"} /\ at \in {"idle", "entered", "handled"} /\ reused \in BOOLEAN
  /\ vector \in 0 .. Word - 1 /\ \A i \in DOMAIN seen : seen[i] \in 0 .. Word - 1

(* The library and the handler of a call agree on its parameters: the operation gets every
   value as it was passed and reaches by every address what the caller means by it; by those
   of an argument list too, as long as exec did not relocate that list before. *)
Reaches(kind, x, k) == IF kind = V THEN k = x ELSE (kind = A /\ reused) \/ KernelLinear(k) = CallerLinear(x)
ArgumentsSeen ==
  at = "handled" =>
    LET kinds == Library[call[1]] IN
    \A i \in DOMAIN seen : i \in DOMAIN kinds /\ Reaches(kinds[i], call[2][i], seen[i])

(* An operation that failed is not reported as done, but for the relocation of a symbol
   (its caller jumps to what comes back), and the environment variable that a process gets
   lies where it can reach it (a kernel process does not use the gate). *)
ResultsRight ==
  /\ result # <<>> /\ result[1] = "failed" /\ call[1] # "dll_relocate" =>
       result[2] = (IF Handler[call[1]].error = "thrown" /\ caller = "kernel" THEN "exception" ELSE "-1")
  /\ result # <<>> /\ result[1] = "env" /\ caller # "gate" => CallerLinear(result[3]) = KernelLinear(result[2])
================================================================================
