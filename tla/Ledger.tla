-------------------------------- MODULE Ledger -------------------------------
(***************************************************************************)
(* What the two timers promise together about the money of an address.  A  *)
(* pass of the payments looks at the amounts owed, pays what it has seen   *)
(* and then wipes whatever is owed by then; a split reads the amount owed  *)
(* and then writes it back with the share added.  Two windows are open: a  *)
(* share written between the look and the wipe is lost (late), and a wipe  *)
(* between the read and the write is undone (stale).  Late is also an      *)
(* account wiped although the wallet refused to pay, stale one that was    *)
(* paid and not wiped, and both is one that a split misread.  Every other  *)
(* account receives exactly what is its own.                               *)
(***************************************************************************)
EXTENDS Integers

CONSTANT Account

VARIABLES owed,      \* current_total of each account
          sent,      \* what the wallet has sent to it so far
          credited,  \* the first amount owed and all shares since
          seen,      \* the amount a pass has looked at, Nothing before and after
          paid,      \* the amount paid and not yet wiped, or Nothing
          reading,   \* the amount a split has read and not yet written back
          late,      \* accounts with a share written after a pass had looked,
                     \* or wiped without a payment, or misread
          stale      \* accounts wiped after a split had read, or paid but not
                     \* wiped, or paid more than was seen, or misread

ledger == <<owed, sent, credited, seen, paid, reading, late, stale>>

Nothing == -1
Amount == Nat \cup {Nothing}
Nowhere == [a \in Account |-> Nothing]

LInit ==
    /\ owed \in [Account -> Nat]
    /\ sent = [a \in Account |-> 0]
    /\ credited = owed
    /\ seen = Nowhere /\ paid = Nowhere /\ reading = Nowhere
    /\ late = {} /\ stale = {}

(* A pass starts. *)
Look ==
    /\ seen = Nowhere /\ paid = Nowhere
    /\ \E S \in SUBSET Account :
          seen' = [a \in Account |-> IF a \in S THEN owed[a] ELSE Nothing]
    /\ UNCHANGED <<owed, sent, credited, paid, reading, late, stale>>

(* The wallet pays one account at a time, never less than what was seen,   *)
(* or it refuses and the pass does not notice.                             *)
Pay(a) ==
    /\ seen[a] # Nothing /\ paid = Nowhere
    /\ paid'[a] \in Nat /\ paid'[a] >= seen[a]
    /\ paid' = [paid EXCEPT ![a] = paid'[a]]
    /\ \/ sent' = [sent EXCEPT ![a] = @ + paid'[a]] /\ UNCHANGED late
       \/ UNCHANGED sent /\ late' = late \cup {a}
    /\ stale' = IF paid'[a] > seen[a] THEN stale \cup {a} ELSE stale
    /\ UNCHANGED <<owed, credited, seen, reading>>

(* The wallet pays, and its answer does not arrive: the pass stops. *)
PayUnanswered(a) ==
    /\ paid = Nowhere
    /\ sent'[a] \in Nat /\ sent'[a] >= sent[a]
    /\ sent' = [sent EXCEPT ![a] = sent'[a]]
    /\ seen' = Nowhere
    /\ stale' = stale \cup {a}
    /\ UNCHANGED <<owed, credited, paid, reading, late>>

(* current_total becomes 0, and the pass goes on, or stops. *)
Wipe(a) ==
    /\ paid[a] # Nothing
    /\ owed' = [owed EXCEPT ![a] = 0]
    /\ paid' = Nowhere
    /\ seen' \in {[seen EXCEPT ![a] = Nothing], Nowhere}
    /\ stale' = IF reading[a] # Nothing THEN stale \cup {a} ELSE stale
    /\ UNCHANGED <<sent, credited, reading, late>>

(* The amount is below the minimum. *)
Skip(a) ==
    /\ paid[a] = Nothing
    /\ seen' = [seen EXCEPT ![a] = Nothing]
    /\ UNCHANGED <<owed, sent, credited, paid, reading, late, stale>>

(* The pass ends, or the process does and with it the split. *)
Stop ==
    /\ seen' = Nowhere /\ paid' = Nowhere
    /\ reading' \in {reading, Nowhere}
    /\ stale' = stale \cup {a \in Account :
                              /\ paid[a] # Nothing
                              /\ owed[a] # 0 \/ reading[a] # Nothing}
    /\ UNCHANGED <<owed, sent, credited, late>>

Read(a) ==
    /\ reading[a] = Nothing
    /\ reading' = [reading EXCEPT ![a] = owed[a]]
    /\ UNCHANGED <<owed, sent, credited, seen, paid, late, stale>>

(* What is read is not the amount owed, and nobody notices. *)
Misread(a) ==
    /\ reading[a] = Nothing
    /\ reading'[a] \in Nat
    /\ reading' = [reading EXCEPT ![a] = reading'[a]]
    /\ late' = late \cup {a} /\ stale' = stale \cup {a}
    /\ UNCHANGED <<owed, sent, credited, seen, paid>>

(* A share is written on top of what was read. *)
Credit(a) ==
    /\ reading[a] # Nothing
    /\ owed'[a] \in Nat /\ owed'[a] >= reading[a]
    /\ owed' = [owed EXCEPT ![a] = owed'[a]]
    /\ credited' = [credited EXCEPT ![a] = @ + owed'[a] - reading[a]]
    /\ reading' = [reading EXCEPT ![a] = Nothing]
    /\ late' = IF seen[a] # Nothing THEN late \cup {a} ELSE late
    /\ UNCHANGED <<sent, seen, paid, stale>>

(* The write failed. *)
Drop(a) ==
    /\ reading' = [reading EXCEPT ![a] = Nothing]
    /\ UNCHANGED <<owed, sent, credited, seen, paid, late, stale>>

LNext ==
    \/ Look \/ Stop
    \/ \E a \in Account :
          \/ Pay(a) \/ PayUnanswered(a) \/ Wipe(a) \/ Skip(a)
          \/ Read(a) \/ Misread(a) \/ Credit(a) \/ Drop(a)

LSpec == LInit /\ [][LNext]_ledger

-----------------------------------------------------------------------------
(* What is still to be wiped of the payment in progress. *)
Unwiped(a) == IF paid[a] = Nothing THEN 0 ELSE paid[a]

(* thread_functions.c:497-553 against 264-292: a share is never lost,      *)
(* unless it was written between the look and the wipe of a pass, or the   *)
(* wallet refused the payment, or the split misread the amount.            *)
NoShareLost ==
    \A a \in Account \ late : owed[a] + sent[a] - Unwiped(a) >= credited[a]

(* The same lines: nothing is paid twice, unless a wipe came between the   *)
(* read and the write of a split, or a payment was not followed by a wipe, *)
(* or the split misread the amount.                                        *)
NothingPaidTwice ==
    \A a \in Account \ stale : owed[a] + sent[a] - Unwiped(a) <= credited[a]
==============================================================================
