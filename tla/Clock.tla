--------------------------------- MODULE Clock ---------------------------------
(***************************************************************************)
(* The date library (libmcpp/cal/mdate.cpp), the reading of the real-time  *)
(* clock (kernel/RTC.cpp) and the time of day that files are stamped with  *)
(* (util/SystemUtil.cpp). The clock goes on while its registers are read   *)
(* one by one; the date read is then moved by the operations of the        *)
(* library. Days are numbered independently of the library (DayNumber), as *)
(* the clock does, which takes every fourth year for a leap year.          *)
(***************************************************************************)
EXTENDS Integers, Sequences

CONSTANTS Instant,   \* instants at which a reading may start: [year, month, day, second of the day]
          Days, Months, Years,  \* by how much a date is moved
          MaxTicks, MaxMoves,
          MaxDays    \* the days from the seed within which a time is converted back (bound)

VARIABLES now,       \* the instant the clock shows
          registers, \* what was read of it, in BCD, and in which order
          begun, carried, ticks,
          date, before, asked, defined, moves

vars == <<now, registers, begun, carried, ticks, date, before, asked, defined, moves>>
Reading == <<now, registers, begun, carried, ticks>>

-------------------------------------------------------------------------------
(* The tables of the library and the validity of a date. *)
IS_LEAP_YEAR(year) == year % 4 = 0
FaultyDaysInMonth(month, year) ==  \* the Gregorian rule without its last exception
  IF month = 2 THEN IF IS_LEAP_YEAR(year) /\ year % 100 # 0 THEN 29 ELSE 28
  ELSE IF month \in {4, 6, 9, 11} THEN 30 ELSE 31
DaysInMonth(month, year) ==
  IF month = 2 THEN IF IS_LEAP_YEAR(year) THEN 29 ELSE 28
  ELSE IF month \in {4, 6, 9, 11} THEN 30 ELSE 31

IsValidMonth(month) == month \in 1 .. 12
IsValidYear(year) == year > 0 /\ year < 10000
IsValid(d) == IsValidYear(d.year) /\ IsValidMonth(d.month) /\ d.day >= 1 /\ d.day <= DaysInMonth(d.month, d.year)

Date(y, m, d) == [year |-> y, month |-> m, day |-> d]
seedDate == Date(1947, 8, 15)
seedDayOfWeek == 4  \* FRIDAY

Least(a, b) == IF a < b THEN a ELSE b
Clamped(y, m, d) == Date(y, m, Least(d, DaysInMonth(m, y)))

(* Days are added month by month: the rest of the month, then from day 0 of the next. *)
AddDaysLoop[y \in Nat, m \in 1 .. 12, day \in Nat, days \in Int] ==
  LET rest == DaysInMonth(m, y) - day IN
  IF days <= rest THEN Date(y, m, day + days)
  ELSE AddDaysLoop[IF m = 12 THEN y + 1 ELSE y, (m % 12) + 1, 0, days - rest]
AddDays(d, days) == IF days <= 0 THEN d ELSE AddDaysLoop[d.year, d.month, d.day, days]
AddWeeks(d, weeks) == AddDays(d, weeks * 7)
AddMonths(d, months) == Clamped(d.year + ((d.month + months - 1) \div 12), ((d.month + months - 1) % 12) + 1, d.day)
AddYears(d, years) == IF d.month = 2 THEN Clamped(d.year + years, 2, d.day) ELSE [d EXCEPT !.year = @ + years]

FaultySubtractDays(d, days) ==  \* the month before is taken to be as long
  IF days < d.day THEN [d EXCEPT !.day = @ - days]
  ELSE AddDays(Date(IF d.month = 1 THEN d.year - 1 ELSE d.year, IF d.month = 1 THEN 12 ELSE d.month - 1,
                    DaysInMonth(d.month, d.year)), 0)
SubtractDaysLoop[y \in Int, m \in 1 .. 12, day \in Nat, days \in Nat] ==
  IF days < day THEN Date(y, m, day - days)
  ELSE LET n == IF m = 1 THEN 12 ELSE m - 1  x == IF m = 1 THEN y - 1 ELSE y IN
       SubtractDaysLoop[x, n, DaysInMonth(n, x), days - day]
SubtractDays(d, days) == SubtractDaysLoop[d.year, d.month, d.day, days]
SubtractWeeks(d, weeks) == SubtractDays(d, weeks * 7)

(* The month is increased by 12 less the months to go back, and not reduced again. Past
   December the table of the months is read beyond its end: nothing follows. *)
SubtractMonths(d, months) ==
  LET nor == months % 12  m == 12 - nor + d.month
      y == (d.year - (months \div 12)) - (IF m - nor < 1 THEN 1 ELSE 0) IN
  [defined |-> months = 0 \/ m <= 12, date |-> IF months = 0 \/ m > 12 THEN d ELSE Clamped(y, m, d.day)]
SubtractYears(d, years) ==
  IF d.year - years <= 0 THEN d
  ELSE IF d.month = 2 THEN Clamped(d.year - years, 2, d.day) ELSE [d EXCEPT !.year = @ - years]

IsGreater(a, b) ==
  \/ a.year > b.year
  \/ a.year = b.year /\ (a.month > b.month \/ (a.month = b.month /\ a.day > b.day))
IsLesser(a, b) ==
  \/ a.year < b.year
  \/ a.year = b.year /\ (a.month < b.month \/ (a.month = b.month /\ a.day < b.day))
IsEqual(a, b) == a = b

(* The difference of two dates: whole months within a year, whole years between two. *)
MonthsSum[m \in 1 .. 13, last \in 1 .. 13, year \in Nat] ==
  IF m = last THEN 0 ELSE DaysInMonth(m, year) + MonthsSum[m + 1, last, year]
SameYearDateDifference(a, b) ==
  IF a.month = b.month THEN a.day - b.day
  ELSE (DaysInMonth(b.month, b.year) - b.day) + MonthsSum[b.month + 1, a.month, b.year] + a.day
YearsSum[y \in Nat, last \in Nat] ==
  IF y = last THEN 0 ELSE (IF IS_LEAP_YEAR(y) THEN 366 ELSE 365) + YearsSum[y + 1, last]
LaterMinus(a, b) ==
  IF a.year = b.year THEN SameYearDateDifference(a, b)
  ELSE YearsSum[b.year + 1, a.year] + SameYearDateDifference(Date(b.year, 12, 31), b)
       + SameYearDateDifference(a, Date(a.year, 1, 1)) + 1
DateDifference(a, b) == IF IsLesser(a, b) THEN -LaterMinus(b, a) ELSE LaterMinus(a, b)

FaultyDayOfWeek(d) ==  \* before the seed the days are counted as after it
  LET days == DateDifference(d, seedDate)  n == IF days < 0 THEN -days ELSE days IN (seedDayOfWeek + n) % 7
DayOfWeek(d) ==
  LET days == DateDifference(d, seedDate)  r == (-days) % 7 IN
  IF days >= 0 THEN (seedDayOfWeek + days) % 7
  ELSE IF r <= seedDayOfWeek THEN seedDayOfWeek - r ELSE 7 - (r - seedDayOfWeek)
SeedDateDifference(d) == IF IsValid(d) THEN DateDifference(d, seedDate) ELSE 0

-------------------------------------------------------------------------------
(* The numbering of the days, in closed form. *)
Before == <<0, 31, 59, 90, 120, 151, 181, 212, 243, 273, 304, 334>>
DayNumber(d) ==
  365 * d.year + ((d.year + 3) \div 4) + Before[d.month] + d.day + (IF d.month > 2 /\ d.year % 4 = 0 THEN 1 ELSE 0)
Number(d) == DayNumber(d) - DayNumber(seedDate)

(* The clock (external): a tick is a second. *)
SecondsPerDay == 86400
Later(i) == IF i.second + 1 < SecondsPerDay THEN [i EXCEPT !.second = @ + 1]
            ELSE LET d == i.date IN
                 [second |-> 0,
                  date |-> IF d.day < DaysInMonth(d.month, d.year) THEN [d EXCEPT !.day = @ + 1]
                           ELSE IF d.month < 12 THEN Date(d.year, d.month + 1, 1) ELSE Date(d.year + 1, 1, 1)]
BCD(n) == (n \div 10) * 16 + (n % 10)
Register(i) ==
  [day |-> BCD(i.date.day), month |-> BCD(i.date.month), year |-> BCD(i.date.year % 100),
   century |-> BCD(i.date.year \div 100), second |-> BCD(i.second % 60), minute |-> BCD((i.second \div 60) % 60),
   hour |-> BCD(i.second \div 3600)]

(* GetDateTime reads the date before the time, each from the least unit, and does not look
   at the update flag of the clock. *)
FieldOrder == <<"day", "month", "year", "century", "second", "minute", "hour">>
BCD_TO_DECIMAL(b) == (b \div 16) * 10 + (b % 16)
Raw(f) == registers[CHOOSE i \in 1 .. Len(FieldOrder) : FieldOrder[i] = f]
FaultyField(f) == Raw(f)  \* the registers of the time are taken to be binary
Field(f) == BCD_TO_DECIMAL(Raw(f))
IsRead == Len(registers) = Len(FieldOrder)

Init ==
  /\ now \in Instant /\ registers = <<>> /\ begun = now /\ carried = FALSE /\ ticks = 0
  /\ date = seedDate /\ before = seedDate /\ asked = 0 /\ defined = TRUE /\ moves = 0

(* A second passes. It carries when it changes more than the second that is being read. *)
Tick ==
  /\ ~IsRead /\ ticks < MaxTicks /\ ticks' = ticks + 1
  /\ now' = Later(now)
  /\ IF registers = <<>> THEN begun' = now' /\ UNCHANGED carried
     ELSE carried' = (carried \/ now'.second % 60 = 0) /\ UNCHANGED begun
  /\ UNCHANGED <<registers, date, before, asked, defined, moves>>

(* The last register is read: the date is set from what was read, valid or not. *)
ReadDate(r) == Date(BCD_TO_DECIMAL(r[4]) * 100 + BCD_TO_DECIMAL(r[3]), BCD_TO_DECIMAL(r[2]), BCD_TO_DECIMAL(r[1]))
GetDateTime ==
  /\ ~IsRead
  /\ registers' = Append(registers, Register(now)[FieldOrder[Len(registers) + 1]])
  /\ IF Len(registers') = Len(FieldOrder)
     THEN date' = ReadDate(registers') /\ before' = date' ELSE UNCHANGED <<date, before>>
  /\ UNCHANGED <<now, begun, carried, ticks, asked, defined, moves>>

(* GetTimeOfDay: a time is the days since the seed and the second of the day, the program
   one number of seconds. GetRTCTimeFromTime: back to a date. *)
GetTimeOfDay == <<SeedDateDifference(date), Field("hour") * 3600 + Field("minute") * 60 + Field("second")>>
GetRTCTimeFromTime(time) ==
  [date |-> AddDays(seedDate, time[1]), hour |-> time[2] \div 3600,
   minute |-> (time[2] % 3600) \div 60, second |-> (time[2] % 3600) % 60]

-------------------------------------------------------------------------------
(* The date read is moved. asked is the number of days that the move asks for. *)
MoveTo(d, days, ok) ==
  /\ IsRead /\ moves < MaxMoves /\ moves' = moves + 1 /\ defined /\ IsValid(date)
  /\ before' = date /\ date' = d /\ asked' = days /\ defined' = ok
  /\ UNCHANGED Reading
MoveDays == \E n \in Days :
  \/ MoveTo(AddDays(date, n), n, TRUE)      \/ MoveTo(SubtractDays(date, n), -n, TRUE)
  \/ MoveTo(AddWeeks(date, n), 7 * n, TRUE) \/ MoveTo(SubtractWeeks(date, n), -7 * n, TRUE)

(* A move by months or years asks for the same day of the month, or its last day. *)
Shift(d, months) ==
  LET n == d.year * 12 + (d.month - 1) + months  e == Date(n \div 12, (n % 12) + 1, 1) IN
  DayNumber(e) + Least(d.day, DaysInMonth(e.month, e.year)) - 1 - DayNumber(d)
MoveMonths ==
  \/ \E n \in Months : MoveTo(AddMonths(date, n), Shift(date, n), TRUE)
  \/ \E n \in Months : LET s == SubtractMonths(date, n) IN
       MoveTo(s.date, IF s.defined THEN DayNumber(s.date) - DayNumber(date) ELSE 0, s.defined)
  \/ \E n \in Years : MoveTo(AddYears(date, n), Shift(date, 12 * n), TRUE)
  \/ \E n \in Years : MoveTo(SubtractYears(date, n), Shift(date, -12 * n), TRUE)

Next == Tick \/ GetDateTime \/ MoveDays \/ MoveMonths
Spec == Init /\ [][Next]_vars

-------------------------------------------------------------------------------
(* Types of what is read and kept. *)
TypeOK ==
  /\ registers \in Seq(0 .. 255) /\ Len(registers) <= Len(FieldOrder)
  /\ carried \in BOOLEAN /\ defined \in BOOLEAN /\ ticks \in 0 .. MaxTicks /\ moves \in 0 .. MaxMoves

(* A reading during which only the second changed lies between the instants at which it was
   begun and ended, and converting it to a date and a time gives the fields back, unless it is
   before the seed. A carry in the middle of a reading gives any mix of the two instants (RTC.cpp:75-105). *)
AtMost(s, t) == s[1] < t[1] \/ (s[1] = t[1] /\ s[2] <= t[2])
TimeRight ==
  IsRead /\ moves = 0 /\ ~carried =>
    LET time == GetTimeOfDay  back == GetRTCTimeFromTime(time) IN
    /\ AtMost(<<Number(begun.date), begun.second>>, time) /\ AtMost(time, <<Number(now.date), now.second>>)
    /\ time[1] \in 0 .. MaxDays => back = [date |-> date, hour |-> Field("hour"), minute |-> Field("minute"), second |-> Field("second")]

(* After a move the date is valid and as many days away as was asked for; the comparisons,
   the difference and the day of the week agree with the numbering of the days. Nothing is
   claimed of SubtractMonths but that what it computes is a date when it is defined. *)
DatesAgree ==
  IsRead /\ IsValid(before) /\ defined =>
    /\ IsValid(date) /\ Number(date) = Number(before) + asked
    /\ DateDifference(date, before) = asked
    /\ IsGreater(date, before) <=> asked > 0
    /\ IsLesser(date, before) <=> asked < 0
    /\ IsEqual(date, before) <=> asked = 0
    /\ DayOfWeek(date) = (Number(date) + 7 * 100000 + seedDayOfWeek) % 7
================================================================================
