------------------------------ MODULE MassStorage ------------------------------
(***************************************************************************)
(* A USB disk (drivers/usb/devices/USBMassBulkStorageDisk.cpp) and the SCSI *)
(* commands sent to it (drivers/bus/SCSIHandler.cpp): each command is a    *)
(* command block, its data and a status block, on two pipes, and the       *)
(* device takes part in it as a machine of its own.  A transfer may fail,  *)
(* and UHCI tells of success when one timed out.                           *)
(*                                                                         *)
(* A definition named Faulty... is the one after it with a single fault.   *)
(***************************************************************************)
EXTENDS Integers, FiniteSets, SequencesExt

CONSTANTS
  Sectors,            \* lengths of the reads and writes asked for, in sectors
  MaxRead, MaxWrite,  \* sectors in one command: 8 and 16
  MaxFailures         \* bound: transfers that fail

VARIABLES
  caller,             \* what the command is for: reset, scan, ready, capacity, read, write; idle; gone
  at,                 \* where the command is
  sense, saved,       \* it is the auto-sense; the command it stands in for
  cmd,                \* code, direction, bytes are due
  result,             \* iResult, SenseKey, what QueueCommand returned
  dev,                \* the device: phase, whether for the last command block, one waiting, direction
  doubt,              \* a transfer failed since the last reset
  own,                \* the last status read was for the last command block
  start, left, moved, \* GenericRead and GenericWrite: next sector, sectors to go, sectors done
  want,               \* sectors asked for
  capacity,           \* none, read, garbage
  failures
vars == <<caller, at, sense, saved, cmd, result, dev, doubt, own, start, left, moved, want, capacity, failures>>

-----------------------------------------------------------------------------
(* Commands: code, direction and whether data is due.  A length that comes *)
(* from the command itself (L, 8, 0 in the table) or from the caller (B).  *)

Cmd(code, dir) == [code |-> code, dir |-> dir]
Inquiry       == Cmd("INQUIRY", "in")
TestUnitReady == Cmd("TEST_UNIT_READY", "none")
Capacity      == Cmd("READ_CAPACITY", "in")
RequestSense  == Cmd("REQUEST_SENSE", "in")
Read10        == Cmd("READ_10", "in")
Write10       == Cmd("WRITE_10", "out")

\* GetTransferLen: from the code letter of the command, its bytes and the
\* length of the caller's buffer.
LenCode(code) == CASE code = "TEST_UNIT_READY" -> "0" [] code = "READ_CAPACITY" -> "8"
                   [] code \in {"INQUIRY", "REQUEST_SENSE"} -> "L" [] OTHER -> "B"
Byte4(code) == CASE code = "INQUIRY" -> 36 [] code = "REQUEST_SENSE" -> 18 [] OTHER -> 0
RequestLen(code) == CASE code = "INQUIRY" -> 256 [] code = "READ_CAPACITY" -> 8
                      [] code = "REQUEST_SENSE" -> 18 [] code = "TEST_UNIT_READY" -> 0 [] OTHER -> 512
FaultyGetTransferLen(code) ==      \* the letter L is left out
  CASE LenCode(code) = "0" -> 0 [] LenCode(code) = "8" -> 8 [] OTHER -> RequestLen(code)
GetTransferLen(code) ==
  CASE code = "WRITE_10" -> RequestLen(code)
    [] LenCode(code) = "L" -> Byte4(code)
    [] LenCode(code) = "0" -> 0
    [] LenCode(code) = "8" -> 8
    [] OTHER -> RequestLen(code)
\* What the device has for it: a length that both agree on.
DeviceLen(code) == CASE code = "INQUIRY" -> 36 [] code = "REQUEST_SENSE" -> 18 [] code = "READ_CAPACITY" -> 8
                     [] code = "TEST_UNIT_READY" -> 0 [] OTHER -> 512
MayBeShort(code) == code \in {"REQUEST_SENSE", "INQUIRY"}

\* CheckSense.  NOT_READY leaves its answer to what was on the stack.
CheckSense(key) ==
  CASE key \in {"none", "recovered"} -> {"ok"}
    [] key \in {"medium", "attention", "aborted"} -> {"retry"}
    [] key = "notready" -> {"ok", "retry", "fatal"}
    [] OTHER -> {"fatal"}
Key == {"none", "attention", "notready", "hardware"}

-----------------------------------------------------------------------------
Init ==
  /\ caller = "reset" /\ at = "reset" /\ sense = FALSE /\ cmd = Inquiry /\ saved = Inquiry
  /\ result = [code |-> 0, key |-> "none", ret |-> FALSE]
  /\ dev = [phase |-> "cbw", fresh |-> FALSE, waiting |-> FALSE, dir |-> "none"]
  /\ doubt = FALSE /\ own = FALSE /\ start = 0 /\ left = 0 /\ moved = <<>> /\ want = 0
  /\ capacity = "none" /\ failures = 0

upper == <<caller, start, left, want, capacity>>
\* DoReset: three control requests.  Its failure is looked at only when the
\* disk is found.
DoReset ==
  /\ at = "reset"
  /\ \/ /\ dev' = [phase |-> "cbw", fresh |-> FALSE, waiting |-> FALSE, dir |-> "none"]
        /\ doubt' = FALSE /\ failures' = failures
        /\ at' = IF caller = "reset" THEN "call" ELSE "returned"
        /\ caller' = IF caller = "reset" THEN "scan" ELSE caller
     \/ /\ failures < MaxFailures /\ failures' = failures + 1
        /\ doubt' = TRUE /\ dev' = dev
        /\ at' = IF caller = "reset" THEN "off" ELSE "returned"
        /\ caller' = IF caller = "reset" THEN "gone" ELSE caller
  /\ UNCHANGED <<sense, saved, cmd, result, own, start, left, moved, want, capacity>>

\* The next command of ScanDevice, TestReady, ReadCapacity, GenericRead and
\* GenericWrite; the two last take a part of what is left.
Part(max) == IF left > max THEN max ELSE left
Chunk == IF caller = "read" THEN Part(MaxRead) ELSE Part(MaxWrite)
CommandFor(c) ==
  CASE c = "scan" -> Inquiry [] c = "ready" -> TestUnitReady [] c = "capacity" -> Capacity
    [] c = "read" -> Read10 [] c = "write" -> Write10
Call ==
  /\ at = "call"
  /\ cmd' = CommandFor(caller) /\ saved' = CommandFor(caller) /\ sense' = FALSE
  /\ result' = [code |-> 0, key |-> "none", ret |-> FALSE]
  /\ at' = "cbw"
  /\ UNCHANGED <<upper, dev, doubt, own, moved, failures>>
Ask ==
  /\ at = "idle"
  /\ \E c \in {"read", "write"}, n \in Sectors :
       caller' = c /\ left' = n /\ want' = n
  /\ start' = 0 /\ moved' = <<>> /\ at' = "call"
  /\ UNCHANGED <<sense, saved, cmd, result, dev, doubt, own, capacity, failures>>

-----------------------------------------------------------------------------
(* One transfer on a pipe: it goes through when the device is in that      *)
(* phase, and may fail always.                                             *)

Good(from, to, d) == at = from /\ at' = to /\ dev' = d /\ UNCHANGED <<doubt, failures>>
\* The transfer fails; the driver is told (and goes to end), or not.
Bad(from, to) ==
  /\ at = from /\ at' \in {to, "failure"}
  /\ dev' = dev /\ doubt' = TRUE
  /\ failures' = IF doubt THEN failures ELSE failures + 1
  /\ doubt \/ failures < MaxFailures
  /\ UNCHANGED <<sense, cmd, result, own, moved>>
Accept(c) == [phase |-> IF c.dir = "none" THEN "csw" ELSE c.dir, fresh |-> TRUE, waiting |-> FALSE, dir |-> c.dir]
Step(A) == A /\ UNCHANGED <<upper, saved>>

\* The command block goes out.  A device that still has a status to give
\* may keep it; one that waits for data takes it for that.
AfterBlock == IF cmd.dir = "none" THEN "csw" ELSE "data"
SendBlock ==
  \/ /\ dev.phase = "cbw" /\ Good("cbw", AfterBlock, Accept(cmd)) /\ UNCHANGED <<sense, cmd, result, own, moved>>
  \/ /\ dev.phase = "csw" /\ Good("cbw", AfterBlock, [dev EXCEPT !.fresh = FALSE, !.waiting = TRUE])
     /\ UNCHANGED <<sense, cmd, result, own, moved>>
  \/ /\ dev.phase = "out" /\ Good("cbw", AfterBlock, [dev EXCEPT !.phase = "csw", !.fresh = FALSE])
     /\ moved' = Append(moved, <<"block", 0>>) /\ UNCHANGED <<sense, cmd, result, own>>
  \/ Bad("cbw", AfterBlock)
\* After a status the device takes the block that waited.
Next1(d) == IF d.waiting THEN Accept(cmd) ELSE [d EXCEPT !.phase = "cbw"]
Done(d) == IF d.fresh /\ ~sense /\ cmd.code \in {"READ_10", "WRITE_10"} THEN Append(moved, <<start, Chunk>>) ELSE moved
FaultyDataStage ==      \* the status of a write is not read
  \/ /\ cmd.dir \in {"in", "out"} /\ dev.phase = cmd.dir
     /\ Good("data", IF cmd.dir = "out" THEN "success" ELSE "csw", [dev EXCEPT !.phase = "csw"])
     /\ moved' = Done(dev) /\ UNCHANGED <<sense, cmd, result, own>>
  \/ Bad("data", "csw")
DataStage ==
  \/ /\ cmd.dir \in {"in", "out"} /\ dev.phase = cmd.dir /\ Good("data", "csw", [dev EXCEPT !.phase = "csw"])
     /\ moved' = Done(dev) /\ UNCHANGED <<sense, cmd, result, own>>
  \/ /\ cmd.dir = "in" /\ dev.phase = "csw" /\ Good("data", "csw", Next1(dev))
     /\ UNCHANGED <<sense, cmd, result, own, moved>>
  \/ Bad("data", "csw")
\* The status block: good, failed or phase error, with or without data that
\* is missing; or what the device sends instead of it.
GoodStatus(s) ==
  /\ dev.phase = "csw" /\ at = "csw" /\ at' = s
  /\ dev' = Next1(dev) /\ own' = dev.fresh /\ UNCHANGED <<doubt, failures>>
  /\ UNCHANGED <<sense, cmd, result, moved>>
StatusStage ==
  \/ \E s \in {"success", "short", "failure", "error"} :
       (s = "short" => cmd.dir # "none") /\ GoodStatus(s)
  \/ /\ dev.phase = "in" /\ Good("csw", "failure", [dev EXCEPT !.phase = "csw"])
     /\ UNCHANGED <<sense, cmd, result, own, moved>>
  \/ Bad("csw", "failure")

-----------------------------------------------------------------------------
\* QueueCommand, by the status of SendCommand.
Return(code, ret) ==
  /\ at' = "returned" /\ result' = [result EXCEPT !.code = code, !.ret = ret]
QueueError ==
  /\ at = "error"
  /\ at' = "reset"
  /\ result' = [result EXCEPT !.code = IF sense THEN 2 ELSE 1, !.ret = FALSE]
  /\ UNCHANGED <<sense, cmd, saved, own, dev, doubt, moved, failures, upper>>
AutoSense ==
  /\ ~sense /\ (at = "failure" \/ (at = "short" /\ ~MayBeShort(cmd.code)))
  /\ sense' = TRUE /\ cmd' = RequestSense /\ at' = "cbw"
  /\ UNCHANGED <<saved, result, own, dev, doubt, moved, failures, upper>>
Plain ==
  /\ ~sense /\ (at = "success" \/ (at = "short" /\ MayBeShort(cmd.code)))
  /\ Return(0, at = "success")
  /\ UNCHANGED <<sense, cmd, saved, own, dev, doubt, moved, failures, upper>>
\* The command is put back; a key of zero, also the one of a buffer that was
\* never filled, means that nothing is wrong, and still false is returned.
FaultySensed ==      \* the command is not put back
  /\ sense /\ at \in {"success", "short", "failure"}
  /\ \E k \in IF at = "failure" THEN {"none"} ELSE Key :
       /\ at' = "returned"
       /\ result' = IF k = "none" THEN [code |-> 0, key |-> k, ret |-> FALSE]
                    ELSE [code |-> 3, key |-> k, ret |-> at = "success"]
  /\ cmd' = cmd /\ sense' = FALSE
  /\ UNCHANGED <<saved, own, dev, doubt, moved, failures, upper>>
Sensed ==
  /\ sense /\ at \in {"success", "short", "failure"}
  /\ \E k \in IF at = "failure" THEN {"none"} ELSE Key :
       /\ at' = "returned"
       /\ result' = IF k = "none" THEN [code |-> 0, key |-> k, ret |-> FALSE]
                    ELSE [code |-> 3, key |-> k, ret |-> at = "success"]
  /\ cmd' = saved /\ sense' = FALSE
  /\ UNCHANGED <<saved, own, dev, doubt, moved, failures, upper>>

-----------------------------------------------------------------------------
(* The callers of QueueCommand.                                            *)

To(c, a) == caller' = c /\ at' = a
Rest == UNCHANGED <<sense, saved, cmd, result, dev, doubt, own, moved, want, failures>>
\* Without a device the disk is given up; one found is opened, if it is a disk.
NotFound == To("gone", "off")
CreateDisk == To("ready", "call")
ScanDevice ==
  /\ at = "returned" /\ caller = "scan"
  /\ IF ~result.ret \/ result.code # 0 THEN NotFound ELSE CreateDisk \/ NotFound
  /\ Rest /\ UNCHANGED <<start, left, capacity>>
\* A fatal answer returns what QueueCommand returned: false is success.
TestReady ==
  /\ at = "returned" /\ caller = "ready"
  /\ IF result.key = "none" /\ result.code = 0 THEN To("capacity", "call")
     ELSE \E s \in CheckSense(result.key) :
            CASE s = "ok" -> To("capacity", "call")
              [] s = "retry" -> To("ready", "call")
              [] s = "fatal" -> IF result.ret THEN To("gone", "off") ELSE To("capacity", "call")
  /\ Rest /\ UNCHANGED <<start, left, capacity>>
\* The size is taken from the buffer unless there is both a key and a
\* result: also when nothing was written to it.
ReadCapacity ==
  /\ at = "returned" /\ caller = "capacity"
  /\ \E s \in IF result.key # "none" /\ result.code # 0 THEN CheckSense(result.key) ELSE {"ok"} :
       CASE s = "ok" -> /\ To("idle", "idle")
                        /\ capacity' = IF result.ret /\ result.code = 0 THEN "read" ELSE "garbage"
         [] s = "retry" -> To("capacity", "call") /\ capacity' = capacity
         [] s = "fatal" -> To("gone", "off") /\ capacity' = capacity
  /\ Rest /\ UNCHANGED <<start, left>>
FaultyGeneric ==      \* every command starts at the same sector
  /\ at = "returned" /\ caller \in {"read", "write"}
  /\ IF ~result.ret \/ result.code # 0 THEN To("idle", "idle") /\ UNCHANGED <<start, left>>
     ELSE /\ start' = start /\ left' = left - Chunk
          /\ IF left' = 0 THEN To("done", "done") ELSE To(caller, "call")
  /\ Rest /\ UNCHANGED capacity
Generic ==
  /\ at = "returned" /\ caller \in {"read", "write"}
  /\ IF ~result.ret \/ result.code # 0 THEN To("idle", "idle") /\ UNCHANGED <<start, left>>
     ELSE /\ start' = start + Chunk /\ left' = left - Chunk
          /\ IF left' = 0 THEN To("done", "done") ELSE To(caller, "call")
  /\ Rest /\ UNCHANGED capacity
Finish ==
  /\ at = "done" /\ To("idle", "idle")
  /\ Rest /\ UNCHANGED <<start, left, capacity>>

Next ==
  \/ DoReset \/ Call \/ Ask
  \/ Step(SendBlock) \/ Step(DataStage) \/ Step(StatusStage)
  \/ QueueError \/ AutoSense \/ Plain \/ Sensed
  \/ ScanDevice \/ TestReady \/ ReadCapacity \/ Generic \/ Finish
Spec == Init /\ [][Next]_vars

-----------------------------------------------------------------------------
TypeOK ==
  /\ at \in {"reset", "call", "idle", "cbw", "data", "csw", "success", "short", "failure", "error", "returned", "done", "off"}
  /\ dev.phase \in {"cbw", "in", "out", "csw"} /\ sense \in BOOLEAN /\ left \in 0 .. 32 /\ failures \in 0 .. MaxFailures

\* Driver and device are in the same phase of the same command, unless a
\* transfer failed since the device was reset: nothing but a phase error
\* makes the driver reset it.
InPhase ==
  ~doubt =>
    CASE at \in {"call", "idle", "cbw", "returned", "done"} -> dev.phase = "cbw" /\ ~dev.waiting
      [] at = "data" -> dev.phase = cmd.dir /\ dev.fresh
      [] at = "csw" -> dev.phase = "csw" /\ dev.fresh
      [] OTHER -> TRUE
\* A command that is reported done was done by the device: the status was
\* that of the command, although all have the same tag.
StatusOwn == at \in {"success", "short"} /\ ~doubt => own
\* A read or write that succeeds moved every sector asked for once and in
\* order, and no command block went to the disk as data.
SectorsOnce ==
  at = "done" /\ ~doubt =>
    /\ \A s \in 0 .. want - 1 :
         Cardinality({i \in DOMAIN moved : s \in moved[i][1] .. moved[i][1] + moved[i][2] - 1}) = 1
    /\ \A i \in 1 .. Len(moved) - 1 : moved[i + 1][1] = moved[i][1] + moved[i][2]
    /\ moved # <<>> /\ moved[Len(moved)][1] + moved[Len(moved)][2] = want
\* The command comes back from auto-sense as it was, unless that itself
\* failed so badly that the device was reset.
CommandKept == at = "returned" /\ result.code # 2 => cmd = saved
\* What is transferred fits the caller's buffer and is what the device has.
LengthsAgree ==
  \A c \in {"INQUIRY", "TEST_UNIT_READY", "READ_CAPACITY", "REQUEST_SENSE", "READ_10", "WRITE_10"} :
    GetTransferLen(c) <= RequestLen(c) /\ GetTransferLen(c) = DeviceLen(c)
=============================================================================
