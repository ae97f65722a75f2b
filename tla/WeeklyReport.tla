----------------------------- MODULE WeeklyReport -----------------------------
(* The draft of a weekly report (scripts/weekly-report.mjs). It reads, by     *)
(* bisection, the block that closes each day of two weeks and the supply at   *)
(* it, compares the changes with the index's mints less burns, and says       *)
(* whether the week set a new high. Time is in days: a block stamped d is of  *)
(* day d, the one stamped exactly midnight included.                          *)
EXTENDS Integers, FiniteSets

CONSTANTS
  Published,   \* day of publication: the week ends the day before
  WeekLength,  \* days in a week
  MaxBlock,    \* bound: number of the head
  FirstStep    \* first step of the gallop, 64 in the code

WeeklyAssumption ==
  /\ {WeekLength, FirstStep} \subseteq Nat \ {0} /\ MaxBlock \in Nat
  /\ Published \in Nat /\ Published > 2 * WeekLength

VARIABLES
  (* what is read: the chain and the index's series *)
  stamp,       \* per block: the day of its timestamp
  minted,      \* per block: mints less burns
  wrong,       \* day whose mint - burn the index has wrong, -1 if none
  recordFirst, \* first complete day of the record
  windowEnd,   \* first day the index has not measured to its end
  (* the script *)
  phase,
  todo,        \* days whose close is still to be read
  lo, hi, step,
  reads,       \* per day read: the block that closes it
  rounds       \* rounds of the loop that reads the highest close

series == <<stamp, minted, wrong, recordFirst, windowEnd>>
vars == <<series, phase, todo, lo, hi, step, reads, rounds>>

Earliest(S) == CHOOSE x \in S : \A y \in S : x <= y
Latest(S) == CHOOSE x \in S : \A y \in S : x >= y

Blocks == 0..MaxBlock
Days == 0..Published - 1
reportWindow == [from |-> Published - WeekLength, to |-> Published - 1,
                 prevFrom |-> Published - 2 * WeekLength]

(* Every day of both weeks and the one before.                                *)
supplyReadDays == reportWindow.prevFrom - 1 .. reportWindow.to

Init ==
  /\ stamp \in {s \in [Blocks -> 0..Published] : \A n \in 1..MaxBlock : s[n-1] <= s[n]}
  /\ minted \in [Blocks -> {1, -1}]
  /\ wrong \in Days \cup {-1} /\ windowEnd \in {Published - 1, Published}
  /\ recordFirst \in {d \in Days : stamp[0] <= d}      \* a record of days the chain had blocks on
  /\ phase = "start" /\ todo = supplyReadDays
  /\ lo = 0 /\ hi = 0 /\ step = 0 /\ reads = [d \in {} |-> 0] /\ rounds = 0

(* Mints less burns of some blocks.                                           *)
Issued(B) == Cardinality({n \in B : minted[n] = 1}) - Cardinality({n \in B : minted[n] = -1})
totalSupply(n) == Issued(0..n)
(* The series' mint - burn over some days.                                    *)
net(D) == Issued({n \in Blocks : stamp[n] \in D}) + (IF wrong \in D THEN 1 ELSE 0)

(* The week is measured to its end and both weeks are inside the record.      *)
assertSeriesCovers ==
  /\ phase = "start"
  /\ phase' = IF windowEnd >= Published /\ recordFirst <= reportWindow.prevFrom THEN "next" ELSE "failed"
  /\ UNCHANGED <<series, todo, lo, hi, step, reads, rounds>>

(* ---- lastBlockBefore ---- *)
head == MaxBlock
(* The latest day first.                                                      *)
NextDay == Latest(todo)
Midnight == NextDay + 1

(* From a guess, off the nearest close known and a measured block time, which *)
(* may land on any block.                                                     *)
BeginSearch ==
  /\ phase = "next" /\ todo # {}
  /\ IF stamp[head] < Midnight THEN phase' = "failed" /\ UNCHANGED <<lo, hi, step>>
     ELSE /\ step' = FirstStep
          /\ \E guess \in Blocks :
               IF stamp[guess] < Midnight THEN lo' = guess /\ hi' = head /\ phase' = "up"
               ELSE hi' = guess /\ lo' = 0 /\ phase' = "down"
  /\ UNCHANGED <<series, todo, reads, rounds>>

GallopUp ==
  /\ phase = "up"
  /\ \E next \in {Earliest({head, lo + step})} :
       IF stamp[next] >= Midnight THEN hi' = next /\ phase' = "halve" /\ UNCHANGED <<lo, step>>
       ELSE lo' = next /\ step' = 2 * step /\ UNCHANGED <<hi, phase>>
  /\ UNCHANGED <<series, todo, reads, rounds>>

GallopDown ==
  /\ phase = "down"
  /\ IF hi = 0 THEN phase' = "failed" /\ UNCHANGED <<lo, hi, step>>
     ELSE \E next \in {Latest({0, hi - step})} :
       IF stamp[next] < Midnight THEN lo' = next /\ phase' = "halve" /\ UNCHANGED <<hi, step>>
       ELSE hi' = next /\ step' = 2 * step /\ UNCHANGED <<lo, phase>>
  /\ UNCHANGED <<series, todo, reads, rounds>>

Bracketed == hi - lo > 1

Before(n) == stamp[n] < Midnight

Halve ==
  /\ phase = "halve" /\ Bracketed
  /\ \E mid \in {lo + (hi - lo) \div 2} :
       IF Before(mid) THEN lo' = mid /\ UNCHANGED hi ELSE hi' = mid /\ UNCHANGED lo
  /\ UNCHANGED <<series, phase, todo, step, reads, rounds>>

Found ==
  /\ phase = "halve" /\ ~Bracketed
  /\ reads' = [d \in DOMAIN reads \cup {NextDay} |-> IF d = NextDay THEN lo ELSE reads[d]]
  /\ todo' = todo \ {NextDay} /\ phase' = "next" /\ lo' = 0 /\ hi' = 0 /\ step' = 0
  /\ UNCHANGED <<series, rounds>>

(* A request refused, or answered with a rate limit until the retries are     *)
(* used up, ends the script.                                                  *)
GivesUp ==
  /\ phase \in {"next", "up", "down", "halve"} /\ todo # {}
  /\ phase' = "failed"
  /\ UNCHANGED <<series, todo, lo, hi, step, reads, rounds>>

(* ---- supply ---- *)
FirstRead == Earliest(DOMAIN reads)
LastReadBy(d) == Latest({r \in DOMAIN reads : r <= d})

(* The close of every day of the record: read, or rebuilt from the nearest    *)
(* read before it (after it, for the days before the first read).             *)
closesFrom ==
  [d \in recordFirst..reportWindow.to |->
     IF d >= FirstRead
     THEN totalSupply(reads[LastReadBy(d)]) + net(LastReadBy(d) + 1 .. d)
     ELSE totalSupply(reads[FirstRead]) - net(d + 1 .. FirstRead)]

(* The highest close before the week; of equals, the one entered first: the   *)
(* first read, then the days before it backwards, then those after it.        *)
Entered(d) == IF d <= FirstRead THEN FirstRead - d ELSE d
priorHigh ==
  LET days == recordFirst .. reportWindow.from - 1
      highest == {d \in days : \A e \in days : closesFrom[d] >= closesFrom[e]}
  IN CHOOSE d \in highest : \A e \in highest : Entered(d) <= Entered(e)

(* The highest close is read on chain as well, up to three times: a new read  *)
(* may move it.                                                               *)
ReadHighest ==
  /\ phase = "next" /\ todo = {}
  /\ IF priorHigh \in DOMAIN reads \/ rounds = 3
     THEN phase' = "build" /\ UNCHANGED <<todo, rounds>>
     ELSE todo' = {priorHigh} /\ rounds' = rounds + 1 /\ UNCHANGED phase
  /\ UNCHANGED <<series, lo, hi, step, reads>>

(* Each read against the one before it. *)
Consecutive == {p \in (DOMAIN reads) \X (DOMAIN reads) :
                  p[1] < p[2] /\ \A r \in DOMAIN reads : ~(p[1] < r /\ r < p[2])}
supplyChecks_FromTheDayItself(a, b) ==
  totalSupply(reads[b]) - totalSupply(reads[a]) = net(a .. b - 1)
supplyChecks(a, b) ==
  totalSupply(reads[b]) - totalSupply(reads[a]) = net(a + 1 .. b)
supplyOk == \A p \in Consecutive : supplyChecks(p[1], p[2])

WeekHigh == Latest({totalSupply(reads[d]) : d \in reportWindow.from .. reportWindow.to})
newHigh == WeekHigh > totalSupply(reads[priorHigh])

buildReport ==
  /\ phase = "build"
  /\ phase' = IF supplyReadDays \subseteq DOMAIN reads /\ priorHigh \in DOMAIN reads THEN "drafted" ELSE "failed"
  /\ UNCHANGED <<series, todo, lo, hi, step, reads, rounds>>

Step ==
  \/ assertSeriesCovers \/ BeginSearch \/ GallopUp \/ GallopDown \/ Halve \/ Found
  \/ ReadHighest \/ buildReport
Next == Step \/ GivesUp

Spec == Init /\ [][Next]_vars /\ WF_vars(Step)

CloseOf(d) == Latest({n \in Blocks : stamp[n] < d + 1})

(* The close of a day is the last block stamped before the next midnight,     *)
(* wherever the search started and however it galloped.                       *)
CloseIsTheLastBlockBefore ==
  \A d \in DOMAIN reads : reads[d] = CloseOf(d)

(* A draft whose checks all passed states two weeks on which the index and    *)
(* the chain agree day by day; a check fails only where they do not.          *)
ChecksFindTheWrongDay ==
  phase = "drafted" =>
    (supplyOk <=> \A p \in Consecutive : wrong \notin p[1] + 1 .. p[2])

(* Where the index is right the draft says a new high exactly when the week's *)
(* highest close is above every close of the record before it.                *)
NewHighIsTrue ==
  phase = "drafted" /\ wrong = -1 =>
    (newHigh <=> \A d \in recordFirst .. reportWindow.from - 1 : totalSupply(CloseOf(d)) < WeekHigh)

(* The script ends, with a draft or with a reason.                            *)
ScriptEnds == <>(phase \in {"drafted", "failed"})
=============================================================================
