-------------------------------- MODULE SoaSerial -------------------------------
(***************************************************************************)
(* The serial that a push puts into the zone: the day and a counter of two *)
(* digits, kept in two rows of system_config.  The rows are locked, the    *)
(* day is read before that.                                                *)
(***************************************************************************)
EXTENDS Integers

CONSTANTS
    Pushes,     \* threads that deploy a zone
    MaxSeq,     \* 99
    LastDay     \* bound on the clock

ASSUME SerialAssumption == MaxSeq \in Nat /\ LastDay \in Nat

VARIABLES
    today,      \* the clock of the machine, in days
    counter,    \* serial_counter_date and serial_counter_seq
    keptCounter, \* the two rows as a backup has them
    readDay,     \* readDay[p]: the day thread p has read, -1 if it asks for no serial
    given,      \* the serials handed out so far
    behind      \* what has set the counter back: a push that was late, a backup

serialVars == <<today, counter, keptCounter, readDay, given, behind>>

Day     == 0 .. LastDay
Counter == [day : Day, seq : 0 .. MaxSeq]

Number(c) == c.day * (MaxSeq + 1) + c.seq

SerialTypeOK ==
    /\ today \in Day /\ counter \in Counter /\ keptCounter \in Counter
    /\ readDay \in [Pushes -> Day \cup {-1}]
    /\ given \in SUBSET Nat /\ behind \in {"no", "late", "restored"}

\* The rows are seeded; the day they name is long past.
SerialInit ==
    /\ today \in 1 .. LastDay
    /\ counter = [day |-> 0, seq |-> 0] /\ keptCounter = counter
    /\ readDay = [p \in Pushes |-> -1]
    /\ given = {} /\ behind = "no"

ReadDay(p) ==
    /\ readDay[p] = -1
    /\ readDay' = [readDay EXCEPT ![p] = today]
    /\ UNCHANGED <<today, counter, keptCounter, given, behind>>

\* Mutant of Counted: after the last serial of a day the first again.
CountedAround(day) ==
    IF counter.day # day THEN {[day |-> day, seq |-> 0]}
    ELSE {[day |-> day, seq |-> (counter.seq + 1) % (MaxSeq + 1)]}

\* The counter after one more serial of that day, if there is one.
Counted(day) ==
    IF counter.day # day THEN {[day |-> day, seq |-> 0]}
    ELSE IF counter.seq + 1 > MaxSeq THEN {} ELSE {[day |-> day, seq |-> counter.seq + 1]}

\* The rows are locked, counted up and written in one transaction.
Issue(p) ==
    /\ readDay[p] # -1
    /\ \E c \in Counted(readDay[p]) :
         /\ counter' = c
         /\ given' = given \cup {Number(c)}
    /\ behind' = IF behind = "no" /\ readDay[p] < counter.day THEN "late" ELSE behind
    /\ readDay' = [readDay EXCEPT ![p] = -1]
    /\ UNCHANGED <<today, keptCounter>>

\* The day has no serial left, or the database fails: the push ends there.
NoSerial(p) ==
    /\ readDay[p] # -1
    /\ readDay' = [readDay EXCEPT ![p] = -1]
    /\ UNCHANGED <<today, counter, keptCounter, given, behind>>

Midnight ==
    /\ today < LastDay
    /\ today' = today + 1
    /\ UNCHANGED <<counter, keptCounter, readDay, given, behind>>

\* A backup holds the two rows as it holds every setting, and brings them back.
KeepCounter ==
    /\ keptCounter' = counter
    /\ UNCHANGED <<today, counter, readDay, given, behind>>

RestoreCounter ==
    /\ counter' = keptCounter
    /\ behind' = IF Number(keptCounter) < Number(counter) THEN "restored" ELSE behind
    /\ UNCHANGED <<today, keptCounter, readDay, given>>

SerialNext ==
    \/ \E p \in Pushes : ReadDay(p) \/ Issue(p) \/ NoSerial(p)
    \/ Midnight \/ KeepCounter \/ RestoreCounter

SerialSpec == SerialInit /\ [][SerialNext]_serialVars

-----------------------------------------------------------------------------
(* Properties *)

\* A new serial is above all that were given out before, on whatever zone, as long as
\* the counter was not set back: neither by a backup, nor by a thread that read the day
\* before midnight and got the lock after one that read it later.
SerialsRise ==
    [][\A p \in Pushes : Issue(p) =>
          behind' # "no" \/ \A s \in given : s < Number(counter')]_serialVars

\* The counter stays within its day's numbers and gives none out below another.
SerialsAreFresh == []SerialTypeOK /\ SerialsRise
=============================================================================
