------------------------------ MODULE LedgerWriter ------------------------------
(***************************************************************************)
(* ledger-writer: the stream as JSON lines in S3, one object per batch,    *)
(* and backfill-running-spend-from-ledger.ts, which reads them back.       *)
(***************************************************************************)
EXTENDS SpendTable

VARIABLES
  ledger,    \* item -> [usd: dollars of its lines by effective day,
             \*          newest: effective day of its last line, or 0]
  spoiled,   \* history: items with a record written twice or not at all
  lost,      \* items whose row disappeared
  fold       \* the rows a backfill found in the ledger, still to be put

ledgerVars == <<ledger, spoiled, lost, fold>>

LedgerInit ==
  /\ ledger = [i \in Items |-> [usd |-> [d \in 1..MaxDay |-> 0], newest |-> 0]]
  /\ spoiled = {} /\ lost = {} /\ fold = {}

(* Mutant of Skipped: a repair's own delta goes to the ledger as well. *)
SkippedLens(rec) == rec.new.marked
(* Lens rows, rows that went, and the delta of a repair, which writes its  *)
(* own lines.                                                              *)
Skipped(rec) ==
  \/ rec.new.marked
  \/ rec.new = NoRow
  \/ rec.new.fix # rec.old.fix
(* What changed between the images.                                        *)
Line(rec) == [usd |-> rec.new.spend - rec.old.spend, day |-> rec.new.last]
HasLine(rec) ==
  ~Skipped(rec) /\ (Line(rec).usd # 0 \/ rec.new.reqs # rec.old.reqs)

(* The object put for the first n records; a batch of several has the      *)
(* effect of several batches of one.                                       *)
Object(n) ==
  LET Lines(i) == {m \in 1..n : stream[m].item = i /\ HasLine(stream[m])} IN
  ledger' = [i \in Items |->
    IF Lines(i) = {} THEN ledger[i] ELSE
    [usd |-> [d \in 1..MaxDay |-> ledger[i].usd[d] +
                SumFunctionOnSet([m \in 1..n |-> Line(stream[m]).usd],
                                 {m \in Lines(i) : Line(stream[m]).day = d})],
     newest |-> Line(stream[Max(Lines(i))]).day]]

LedgerBatch ==
  /\ stream # <<>> /\ Object(1) /\ stream' = Tail(stream)
  /\ UNCHANGED <<today, rows, stamps, faults, spoiled, lost, fold>>
(* The object is put, the invocation fails all the same: redelivery.       *)
LedgerAgain ==
  /\ faults < MaxFaults /\ faults' = faults + 1
  /\ \E n \in DOMAIN stream :
       Object(n) /\ spoiled' = spoiled \union {stream[m].item : m \in 1..n}
  /\ UNCHANGED <<today, rows, stream, stamps, lost, fold>>
(* The retries of a record, alone after bisection, are exhausted.          *)
LedgerGivesUp ==
  /\ faults < MaxFaults /\ faults' = faults + 1
  /\ stream # <<>> /\ stream' = Tail(stream)
  /\ spoiled' = spoiled \union {Head(stream).item}
  /\ UNCHANGED <<today, rows, stamps, ledger, lost, fold>>

LedgerUsd(i) == SumFunctionOnSet(ledger[i].usd, 1..MaxDay)

(***************************************************************************)
(* Recovery of rows from the ledger.                                       *)
(***************************************************************************)
(* A closed row expires, or is deleted by hand.                            *)
RowDisappears(i) ==
  /\ faults < MaxFaults /\ faults' = faults + 1
  /\ rows[i] # NoRow /\ i[3] # <<"monthly", Month(today)>>
  /\ WriteOne(i, NoRow)
  /\ lost' = lost \union {i}
  /\ UNCHANGED <<today, stamps, ledger, spoiled, fold>>

BackfillReads ==
  /\ fold = {} /\ lost # {}
  /\ fold' = {i \in Items : ledger[i].newest # 0 /\ i[3] # <<"monthly", Month(today)>>}
  /\ UNCHANGED <<tableVars, ledger, spoiled, lost>>

(* The script adds up the flat cost_ fields of a row's lines.  Line has    *)
(* none, its costs are a nested map: nothing is added up.                  *)
FlatDollars(i) == 0
Rebuilt(i) ==
  [NoRow EXCEPT !.spend = FlatDollars(i), !.last = ledger[i].newest, !.restored = TRUE]
(* Mutant of BackfillPut: the Put has no condition. *)
BackfillPutAll(i) ==
  /\ i \in fold
  /\ WriteOne(i, Rebuilt(i))
  /\ fold' = fold \ {i}
  /\ UNCHANGED <<today, stamps, faults, ledger, spoiled, lost>>
BackfillPut(i) ==
  /\ i \in fold
  /\ IF rows[i] = NoRow THEN WriteOne(i, Rebuilt(i)) ELSE UNCHANGED <<rows, stream>>
  /\ fold' = fold \ {i}
  /\ UNCHANGED <<today, stamps, faults, ledger, spoiled, lost>>

LedgerNext ==
  \/ LedgerBatch \/ LedgerAgain \/ LedgerGivesUp \/ BackfillReads
  \/ \E i \in Items : RowDisappears(i) \/ BackfillPut(i)
================================================================================
