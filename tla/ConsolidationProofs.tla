-------------------------- MODULE ConsolidationProofs --------------------------
(***************************************************************************)
(* Proofs about Consolidation for any number of runs, overlapping as they  *)
(* like, events, contents, ticks and faults.                               *)
(***************************************************************************)
EXTENDS Consolidation, FiniteSetTheorems, TLAPS

Phase   == {"new", "replay", "scan", "extract", "interfere", "persist", "finish", "ended", "dead"}
Early   == {"new", "replay", "scan", "extract"}        \* no memory made yet
Working == {"interfere", "persist", "finish"}

Context == [pc : Phase, cursor : Nat, visible : SUBSET Id, events : SUBSET Nat, born : Nat,
            made : SUBSET Memory, todo : SUBSET Memory,
            found : SUBSET [old : Memory, action : {"supersede", "conflict"}],
            alone : BOOLEAN, raised : BOOLEAN]

TypeOK ==
    /\ clock \in Nat /\ extractions \in Nat /\ faults \in Nat
    /\ Created \subseteq Id /\ says \in [Created -> Content]
    /\ log \in Seq(Created)
    /\ cursor \in Nat
    /\ DOMAIN rows \subseteq Memory /\ rows \in [DOMAIN rows -> {"active", "faded"}]
    /\ run \in [Run -> Context]
    /\ failed \subseteq Id /\ overlooked \subseteq Nat

\* What a run holds where it stands.
PhaseInv(r) ==
    /\ run[r].pc \in {"new", "replay", "scan"} => run[r].events = {} /\ run[r].visible = {}
    /\ run[r].pc \in Early => run[r].made = {} /\ ~run[r].raised
    /\ run[r].pc # "interfere" => run[r].todo = {} /\ run[r].found = {}
    /\ run[r].pc \in {"finish", "ended", "dead"} => run[r].made = {}

\* Events are in the log, and a memory, stored or not, is of an event of its run.
MadeBy(m, r) == m.run = r /\ m.place \in run[r].events /\ run[r].pc \notin Early

MemberInv ==
    /\ \A m \in DOMAIN rows : MadeBy(m, m.run)
    /\ \A r \in Run : /\ run[r].events \subseteq DOMAIN log
                      /\ run[r].visible \subseteq Created
                      /\ \A m \in run[r].made : MadeBy(m, r)
                      /\ run[r].todo \subseteq run[r].made
                      /\ \A m \in run[r].todo : m.kind = "fact"
                      /\ \A f \in run[r].found : f.old \in DOMAIN rows

\* Every event up to c is remembered, or there is an excuse.
Accounted(e) == e \in failed \cup overlooked \/ (e \in Created /\ Remembered(says[e]))
Explained(c) == \A e \in Id : e <= c => Accounted(e)

\* The events of a run stand for all it saw after its cursor, and lie after it.
Covers(r) ==
    /\ \A i \in run[r].events : log[i] > run[r].cursor
    /\ \A e \in run[r].visible : e > run[r].cursor => \E i \in run[r].events : says[log[i]] = says[e]

\* A run at work that did not raise has each episode stored or to be stored.
Complete(r) ==
    run[r].pc \in Working /\ ~run[r].raised =>
        \A i \in run[r].events : Made("episode", r, i) \in run[r].made \cup DOMAIN rows

CursorInv == Explained(cursor) /\ \A r \in Run : Explained(run[r].cursor) /\ Covers(r) /\ Complete(r)

\* Runs start in order; a run that is alone begins after the earlier ones have
\* stopped, and the later ones begin after it has stopped.
Stopped(r) == run[r].pc \in {"ended", "dead"}

OrderInv ==
    \A r, s \in Run : s < r =>
        /\ run[r].pc # "new" => run[s].pc # "new"
        /\ run[r].pc # "new" /\ run[r].alone => Stopped(s)
        /\ run[s].pc # "new" /\ ~Stopped(s) /\ run[s].alone => run[r].pc = "new"

\* What a run that ended alone has consolidated stays behind the cursor, for the
\* store and for every later run.
CursorRead(r) == run[r].pc = "scan" \/ run[r].events # {}

PassedInv ==
    \A r \in Run : run[r].pc = "ended" /\ run[r].alone /\ run[r].events # {} =>
        \E last \in DOMAIN log :
            /\ IsLast(last, run[r].events)
            /\ log[last] <= cursor
            /\ \A s \in Run : r < s /\ CursorRead(s) => log[last] <= run[s].cursor

\* A fact that interference found is older than a fact of the run with its content.
Newer(new, old) ==
    new.kind = "fact" /\ ContentOf(new) = ContentOf(old) /\ run[new.run].born > run[old.run].born

FoundInv ==
    \A r \in Run : \A f \in run[r].found :
        f.action = "supersede" => \E new \in run[r].made : Newer(new, f.old)

IInv == /\ TypeOK /\ (\A r \in Run : PhaseInv(r)) /\ MemberInv
        /\ CursorInv /\ OrderInv /\ PassedInv /\ FoundInv /\ NewerFactStays

-----------------------------------------------------------------------------
(***************************************************************************)
(* What the actions do to the runs: to r's own context, and to no other.   *)
(***************************************************************************)
Elsewhere(r) == run' \in [Run -> Context] /\ \A s \in Run : s # r => run'[s] = run[s]

KeepsReplay(r) ==
    /\ run'[r].cursor = run[r].cursor /\ run'[r].visible = run[r].visible
    /\ run'[r].events = run[r].events /\ run'[r].alone = run[r].alone
KeepsWork(r) ==
    /\ run'[r].made = run[r].made /\ run'[r].todo = run[r].todo /\ run'[r].found = run[r].found
    /\ run'[r].born = run[r].born /\ run'[r].raised = run[r].raised

\* A step of run r: from one phase to another.
Moves(r, from, to) == Elsewhere(r) /\ run[r].pc \in from /\ run'[r].pc = to

\* The fields of a run's context.
LEMMA Fields ==
    ASSUME NEW c
    PROVE  c \in Context <=>
              /\ c = [pc |-> c.pc, cursor |-> c.cursor, visible |-> c.visible, events |-> c.events,
                      born |-> c.born, made |-> c.made, todo |-> c.todo, found |-> c.found,
                      alone |-> c.alone, raised |-> c.raised]
              /\ c.pc \in Phase /\ c.cursor \in Nat /\ c.visible \in SUBSET Id
              /\ c.events \in SUBSET Nat /\ c.born \in Nat
              /\ c.made \in SUBSET Memory /\ c.todo \in SUBSET Memory
              /\ c.found \in SUBSET [old : Memory, action : {"supersede", "conflict"}]
              /\ c.alone \in BOOLEAN /\ c.raised \in BOOLEAN
  BY DEF Context

\* The id of an event is a positive number.
LEMMA Ids == Id \subseteq Nat \ {0}
  BY DEF Id

LEMMA LogFacts ==
    ASSUME TypeOK
    PROVE  /\ DOMAIN log = 1 .. Len(log) /\ Len(log) \in Nat /\ DOMAIN log \subseteq Nat
           /\ \A i \in DOMAIN log : log[i] \in Created /\ log[i] \in Id /\ log[i] \in Nat
  BY Ids DEF TypeOK

-----------------------------------------------------------------------------
\* A run begins, alone if no other is under way; it shares with those that are.
StartFacts(r) ==
    /\ run' \in [Run -> Context]
    /\ run[r].pc = "new" /\ run'[r].pc = "replay"
    /\ run'[r].cursor = NoId /\ run'[r].visible = {} /\ run'[r].events = {} /\ run'[r].made = {}
    /\ run'[r].todo = {} /\ run'[r].found = {} /\ run'[r].born = 0 /\ ~run'[r].raised
    /\ run'[r].alone <=> \A s \in Run : ~Active(s)
    /\ \A s \in Run : s # r =>
          /\ run'[s].pc = run[s].pc /\ run'[s].cursor = run[s].cursor
          /\ run'[s].visible = run[s].visible /\ run'[s].events = run[s].events
          /\ run'[s].made = run[s].made /\ run'[s].todo = run[s].todo
          /\ run'[s].found = run[s].found /\ run'[s].born = run[s].born
          /\ run'[s].raised = run[s].raised
          /\ run'[s].alone <=> run[s].alone /\ ~Active(s)

LEMMA StartEffect ==
    ASSUME TypeOK, NEW r \in Run, StartRun(r)
    PROVE  StartFacts(r)
  <1>. DEFINE others == {s \in Run : Active(s)}
  <1>1. /\ run[r].pc = "new"
        /\ run' = [s \in Run |->
                     IF s = r THEN [NewRun EXCEPT !.pc = "replay", !.alone = others = {}]
                     ELSE IF s \in others THEN [run[s] EXCEPT !.alone = FALSE] ELSE run[s]]
    BY DEF StartRun
  <1>2. \A s \in Run : run[s] \in Context
    BY DEF TypeOK
  <1>3. /\ run'[r].pc = "replay" /\ run'[r].cursor = NoId /\ run'[r].visible = {} /\ run'[r].events = {}
        /\ run'[r].made = {} /\ run'[r].todo = {} /\ run'[r].found = {} /\ run'[r].born = 0
        /\ run'[r].raised = FALSE /\ run'[r].alone = (others = {})
        /\ run'[r] \in Context
    BY <1>1 DEF NewRun, NoId, Context, Phase
  <1>4. ASSUME NEW s \in Run, s # r
        PROVE  /\ run'[s] \in Context
               /\ run'[s].pc = run[s].pc /\ run'[s].cursor = run[s].cursor
               /\ run'[s].visible = run[s].visible /\ run'[s].events = run[s].events
               /\ run'[s].made = run[s].made /\ run'[s].todo = run[s].todo
               /\ run'[s].found = run[s].found /\ run'[s].born = run[s].born
               /\ run'[s].raised = run[s].raised
               /\ run'[s].alone <=> run[s].alone /\ ~Active(s)
    <2>1. run[s] \in Context
      BY <1>2
    <2>2. CASE Active(s)
      <3>1. run'[s] = [run[s] EXCEPT !.alone = FALSE]
        BY <1>1, <1>4, <2>2
      <3>. QED BY <2>1, <2>2, <3>1 DEF Context
    <2>3. CASE ~Active(s)
      <3>1. run'[s] = run[s]
        BY <1>1, <1>4, <2>3
      <3>. QED BY <2>1, <2>3, <3>1
    <2>. QED BY <2>2, <2>3
  <1>5. run' \in [Run -> Context]
    BY <1>1, <1>3, <1>4
  <1>6. others = {} <=> \A s \in Run : ~Active(s)
    OBVIOUS
  <1>. QED BY <1>1, <1>3, <1>4, <1>5, <1>6 DEF StartFacts

LEMMA CursorEffect ==
    ASSUME TypeOK, NEW r \in Run, ReadCursor(r)
    PROVE  /\ Moves(r, {"replay"}, "scan") /\ KeepsWork(r)
           /\ run'[r].cursor = cursor /\ run'[r].visible = run[r].visible
           /\ run'[r].events = run[r].events /\ run'[r].alone = run[r].alone
  <1>1. run[r] \in Context /\ run' = [run EXCEPT ![r] = [run[r] EXCEPT !.pc = "scan", !.cursor = cursor]]
    BY DEF TypeOK, ReadCursor, Update
  <1>2. run'[r] \in Context /\ run'[r] = [run[r] EXCEPT !.pc = "scan", !.cursor = cursor]
    BY <1>1, Fields DEF TypeOK, Context, Phase
  <1>. QED BY <1>1, <1>2 DEF TypeOK, ReadCursor, Moves, Elsewhere, KeepsWork, Context


\* The places that a scan takes over: in the window and after the cursor.
Taken(r) == {i \in DOMAIN log : InWindow(log[i]) /\ Unconsolidated(log[i], run[r].cursor)}

LEMMA ScanEffect ==
    ASSUME TypeOK, NEW r \in Run, ScanLog(r)
    PROVE  /\ Moves(r, {"scan"}, "extract") /\ KeepsWork(r)
           /\ run'[r].cursor = run[r].cursor /\ run'[r].alone = run[r].alone
           /\ run'[r].visible = {log[i] : i \in {j \in DOMAIN log : InWindow(log[j])}}
           /\ run'[r].events = FirstOfContent(Taken(r))
  <1>. DEFINE seen == {log[i] : i \in {j \in DOMAIN log : InWindow(log[j])}}
              first == FirstOfContent(Taken(r))
  <1>1. run[r] \in Context /\ run[r].pc = "scan"
    BY DEF TypeOK, ScanLog
  <1>2. Taken(r) = {i \in {j \in DOMAIN log : InWindow(log[j])} : Unconsolidated(log[i], run[r].cursor)}
    BY DEF Taken
  <1>3. run' = [run EXCEPT ![r] = [run[r] EXCEPT !.pc = "extract", !.visible = seen, !.events = first]]
    BY <1>2 DEF ScanLog, Update
  <1>4. seen \in SUBSET Id /\ first \in SUBSET Nat
    BY LogFacts DEF Taken, FirstOfContent
  <1>. HIDE DEF seen, first
  <1>5. run'[r] = [run[r] EXCEPT !.pc = "extract", !.visible = seen, !.events = first]
    BY <1>3 DEF TypeOK
  <1>6. run'[r] \in Context
    BY <1>1, <1>4, <1>5 DEF Context, Phase
  <1>7. Elsewhere(r)
    BY <1>3, <1>5, <1>6 DEF TypeOK, Elsewhere
  <1>8. run'[r].pc = "extract" /\ run'[r].visible = seen /\ run'[r].events = first
        /\ KeepsWork(r) /\ run'[r].cursor = run[r].cursor /\ run'[r].alone = run[r].alone
    BY <1>1, <1>5 DEF Context, KeepsWork
  <1>. QED BY <1>1, <1>7, <1>8 DEF Moves, seen, first

LEMMA ReplayFailsEffect ==
    ASSUME TypeOK, NEW r \in Run, ReplayFails(r)
    PROVE  Moves(r, {"replay", "scan"}, "extract") /\ KeepsReplay(r) /\ KeepsWork(r)
  <1>1. /\ run[r] \in Context /\ run[r].pc \in {"replay", "scan"}
        /\ run' = [run EXCEPT ![r] = [run[r] EXCEPT !.pc = "extract"]]
    BY DEF TypeOK, ReplayFails, Update
  <1>2. run'[r] \in Context /\ run'[r] = [run[r] EXCEPT !.pc = "extract"]
    BY <1>1 DEF TypeOK, Context, Phase
  <1>. QED BY <1>1, <1>2 DEF TypeOK, Moves, Elsewhere, KeepsReplay, KeepsWork, Context

\* What the two extractions make, of the first n events and of the first k.
ExtractsUpTo(r, n, k) ==
    run' = [run EXCEPT ![r] =
              [run[r] EXCEPT !.pc = "interfere", !.born = extractions + 1,
                  !.made = Episodes(r, UpTo(run[r].events, n)) \cup Facts(r, UpTo(run[r].events, k)),
                  !.todo = Facts(r, UpTo(run[r].events, k)),
                  !.raised = ~(UpTo(run[r].events, k) = run[r].events)]]

LEMMA ExtractEffect ==
    ASSUME TypeOK, MemberInv, NEW r \in Run, Extract(r)
    PROVE  /\ Moves(r, {"extract"}, "interfere") /\ KeepsReplay(r)
           /\ run'[r].found = run[r].found /\ run'[r].born = extractions + 1
           /\ \A m \in run'[r].made : m.run = r /\ m.place \in run[r].events
           /\ run'[r].todo \subseteq run'[r].made
           /\ \A m \in run'[r].todo : m.kind = "fact"
           /\ ~run'[r].raised => \A i \in run[r].events : Made("episode", r, i) \in run'[r].made
  <1>. DEFINE events == run[r].events
  <1>1. PICK n \in 0 .. Len(log) : \E k \in 0 .. n : ExtractsUpTo(r, n, k)
    BY DEF Extract, ExtractsUpTo, Update
  <1>2. PICK k \in 0 .. n : ExtractsUpTo(r, n, k)
    BY <1>1
  <1>. DEFINE facts == Facts(r, UpTo(events, k))
              made  == Episodes(r, UpTo(events, n)) \cup facts
              part  == ~(UpTo(events, k) = events)
  <1>3. run[r] \in Context /\ run[r].pc = "extract" /\ events \subseteq DOMAIN log
    BY DEF TypeOK, MemberInv, Extract
  <1>4. events \subseteq Nat \ {0} /\ n \in Nat /\ k \in Nat /\ k <= n
    BY <1>3, LogFacts
  <1>5. /\ made \in SUBSET Memory /\ facts \subseteq made
        /\ \A m \in made : m.run = r /\ m.place \in events
        /\ \A m \in facts : m.kind = "fact"
    BY <1>4 DEF Episodes, Facts, UpTo, Made, Memory
  <1>6. ~part => \A i \in events : Made("episode", r, i) \in made
    <2>1. ASSUME ~part, NEW i \in events PROVE i \in UpTo(events, n)
      BY <1>4, <2>1 DEF UpTo
    <2>. QED BY <2>1 DEF Episodes
  <1>7. part \in BOOLEAN /\ extractions + 1 \in Nat
    BY DEF TypeOK
  <1>8. run' = [run EXCEPT ![r] = [run[r] EXCEPT !.pc = "interfere", !.born = extractions + 1,
                                      !.made = made, !.todo = facts, !.raised = part]]
    BY <1>2 DEF ExtractsUpTo
  <1>. HIDE DEF made, facts, part
  <1>9. run'[r] = [run[r] EXCEPT !.pc = "interfere", !.born = extractions + 1,
                                 !.made = made, !.todo = facts, !.raised = part]
    BY <1>8 DEF TypeOK
  <1>10. run'[r] \in Context
    <2>1. facts \in SUBSET Memory
      BY <1>5
    <2>. QED BY <1>3, <1>5, <1>7, <1>9, <2>1 DEF Context, Phase
  <1>11. Elsewhere(r)
    BY <1>8, <1>9, <1>10 DEF TypeOK, Elsewhere
  <1>12. /\ run'[r].pc = "interfere" /\ run'[r].made = made /\ run'[r].todo = facts
         /\ run'[r].raised = part /\ run'[r].born = extractions + 1
         /\ KeepsReplay(r) /\ run'[r].found = run[r].found
    BY <1>3, <1>9 DEF Context, KeepsReplay
  <1>. QED BY <1>3, <1>5, <1>6, <1>11, <1>12 DEF Moves

LEMMA SearchEffect ==
    ASSUME TypeOK, NEW r \in Run, SearchSimilar(r)
    PROVE  /\ Moves(r, {"interfere"}, "interfere") /\ KeepsReplay(r)
           /\ run'[r].made = run[r].made /\ run'[r].born = run[r].born
           /\ run'[r].raised = run[r].raised
           /\ \E new \in run[r].todo :
                /\ run'[r].todo = run[r].todo \ {new}
                /\ \A f \in run'[r].found :
                      /\ f.old \in DOMAIN rows
                      /\ f.action = "supersede" => Supersedes(new, f.old)
  <1>1. PICK new \in run[r].todo :
           run' = [run EXCEPT ![r] = [run[r] EXCEPT !.todo = run[r].todo \ {new},
                     !.found = {Finding("supersede", m) : m \in {n \in ActiveFacts : Supersedes(new, n)}}
                               \cup {Finding("conflict", m) : m \in {n \in ActiveFacts : Conflicts(new, n)}}]]
    <2>. run[r] = [run[r] EXCEPT !.todo = run[r].todo] /\ run[r] \in Context
      BY Fields DEF TypeOK
    <2>. QED BY DEF SearchSimilar, Update
  <1>. DEFINE found == {Finding("supersede", m) : m \in {n \in ActiveFacts : Supersedes(new, n)}}
                       \cup {Finding("conflict", m) : m \in {n \in ActiveFacts : Conflicts(new, n)}}
              todo  == run[r].todo \ {new}
  <1>2. run[r] \in Context /\ run[r].pc = "interfere"
    BY DEF TypeOK, SearchSimilar
  <1>3. \A f \in found : /\ f.old \in DOMAIN rows
                         /\ f.action = "supersede" => Supersedes(new, f.old)
    BY DEF Finding, ActiveFacts
  <1>4. found \in SUBSET [old : Memory, action : {"supersede", "conflict"}]
    <2>1. ActiveFacts \subseteq Memory
      BY DEF ActiveFacts, TypeOK
    <2>. QED BY <2>1 DEF Finding
  <1>5. todo \in SUBSET Memory
    BY <1>2, Fields
  <1>. HIDE DEF found, todo
  <1>6. run' = [run EXCEPT ![r] = [run[r] EXCEPT !.todo = todo, !.found = found]]
    BY <1>1 DEF found, todo
  <1>7. run'[r] = [run[r] EXCEPT !.todo = todo, !.found = found]
    BY <1>6 DEF TypeOK
  <1>8. run'[r] \in Context
    BY <1>2, <1>4, <1>5, <1>7 DEF Context
  <1>9. Elsewhere(r)
    BY <1>6, <1>8 DEF TypeOK, Elsewhere
  <1>10. /\ run'[r].pc = "interfere" /\ run'[r].todo = todo /\ run'[r].found = found
         /\ KeepsReplay(r) /\ run'[r].made = run[r].made /\ run'[r].born = run[r].born
         /\ run'[r].raised = run[r].raised
    BY <1>2, <1>7 DEF Context, KeepsReplay
  <1>. QED BY <1>2, <1>3, <1>9, <1>10 DEF Moves, todo


LEMMA InterfereEffect ==
    ASSUME TypeOK, NEW r \in Run, Interfere(r)
    PROVE  /\ Moves(r, {"interfere"}, "interfere") /\ KeepsReplay(r)
           /\ run'[r].made = run[r].made /\ run'[r].todo = run[r].todo
           /\ run'[r].born = run[r].born /\ run'[r].raised = run[r].raised
           /\ run'[r].found \subseteq run[r].found
           /\ \E f \in run[r].found :
                rows' = [rows EXCEPT ![f.old] = IF f.action = "supersede" THEN "faded" ELSE "active"]
  <1>1. PICK f \in run[r].found :
           /\ rows' = [rows EXCEPT ![f.old] = IF f.action = "supersede" THEN "faded" ELSE "active"]
           /\ Update(r, [run[r] EXCEPT !.found = @ \ {f}])
    BY DEF Interfere
  <1>2. run[r] \in Context /\ run[r].pc = "interfere"
    BY DEF TypeOK, Interfere
  <1>. DEFINE left == run[r].found \ {f}
  <1>3. left \in SUBSET [old : Memory, action : {"supersede", "conflict"}] /\ left \subseteq run[r].found
    BY <1>2, Fields
  <1>4. run' = [run EXCEPT ![r] = [run[r] EXCEPT !.found = left]]
    BY <1>1, <1>2 DEF Update, Context
  <1>. HIDE DEF left
  <1>5. run'[r] = [run[r] EXCEPT !.found = left]
    BY <1>4 DEF TypeOK
  <1>6. run'[r] \in Context
    BY <1>2, <1>3, <1>5 DEF Context
  <1>7. Elsewhere(r)
    BY <1>4, <1>6 DEF TypeOK, Elsewhere
  <1>8. /\ run'[r].pc = "interfere" /\ run'[r].found = left /\ KeepsReplay(r)
        /\ run'[r].made = run[r].made /\ run'[r].todo = run[r].todo
        /\ run'[r].born = run[r].born /\ run'[r].raised = run[r].raised
    BY <1>2, <1>5 DEF Context, KeepsReplay
  <1>. QED BY <1>1, <1>2, <1>3, <1>7, <1>8 DEF Moves

LEMMA InterferenceEndsEffect ==
    ASSUME TypeOK, NEW r \in Run, InterferenceEnds(r)
    PROVE  /\ Moves(r, {"interfere"}, "persist") /\ KeepsReplay(r)
           /\ run'[r].made = run[r].made /\ run'[r].todo = {} /\ run'[r].found = {}
           /\ run'[r].born = run[r].born /\ run'[r].raised = run[r].raised
  <1>1. /\ run[r] \in Context /\ run[r].pc = "interfere"
        /\ run' = [run EXCEPT ![r] = [run[r] EXCEPT !.pc = "persist", !.todo = {}, !.found = {}]]
    BY DEF TypeOK, InterferenceEnds, Update
  <1>2. run'[r] \in Context /\ run'[r] = [run[r] EXCEPT !.pc = "persist", !.todo = {}, !.found = {}]
    BY <1>1 DEF TypeOK, Context, Phase
  <1>. QED BY <1>1, <1>2 DEF TypeOK, Moves, Elsewhere, KeepsReplay, Context

LEMMA PersistEffect ==
    ASSUME TypeOK, NEW r \in Run, Persist(r)
    PROVE  /\ Moves(r, {"persist"}, "persist") /\ KeepsReplay(r)
           /\ run'[r].todo = run[r].todo /\ run'[r].found = run[r].found
           /\ run'[r].born = run[r].born /\ run'[r].raised = run[r].raised
           /\ \E m \in run[r].made : run'[r].made = run[r].made \ {m} /\ rows' = Stored(m)
  <1>1. PICK m \in run[r].made : rows' = Stored(m) /\ Update(r, [run[r] EXCEPT !.made = @ \ {m}])
    BY DEF Persist
  <1>2. run[r] \in Context /\ run[r].pc = "persist"
    BY DEF TypeOK, Persist
  <1>. DEFINE left == run[r].made \ {m}
  <1>3. left \in SUBSET Memory
    BY <1>2, Fields
  <1>4. run' = [run EXCEPT ![r] = [run[r] EXCEPT !.made = left]]
    BY <1>1, <1>2 DEF Update, Context
  <1>. HIDE DEF left
  <1>5. run'[r] = [run[r] EXCEPT !.made = left]
    BY <1>4 DEF TypeOK
  <1>6. run'[r] \in Context
    BY <1>2, <1>3, <1>5 DEF Context
  <1>7. Elsewhere(r)
    BY <1>4, <1>6 DEF TypeOK, Elsewhere
  <1>8. /\ run'[r].pc = "persist" /\ run'[r].made = left /\ KeepsReplay(r)
        /\ run'[r].found = run[r].found /\ run'[r].todo = run[r].todo
        /\ run'[r].born = run[r].born /\ run'[r].raised = run[r].raised
    BY <1>2, <1>5 DEF Context, KeepsReplay
  <1>. QED BY <1>1, <1>2, <1>7, <1>8 DEF Moves, left

LEMMA PersistenceEndsEffect ==
    ASSUME TypeOK, NEW r \in Run, PersistenceEnds(r)
    PROVE  /\ Moves(r, {"persist"}, "finish") /\ KeepsReplay(r)
           /\ run'[r].todo = run[r].todo /\ run'[r].found = run[r].found
           /\ run'[r].born = run[r].born /\ run'[r].made = {}
           /\ run[r].made # {} => run'[r].raised
           /\ run[r].made = {} => run'[r].raised = run[r].raised
  <1>1. run[r] \in Context /\ run[r].pc = "persist"
    BY DEF TypeOK, PersistenceEnds
  <1>2. CASE run[r].made = {} /\ Update(r, [run[r] EXCEPT !.pc = "finish"])
    <2>1. run' = [run EXCEPT ![r] = [run[r] EXCEPT !.pc = "finish"]]
      BY <1>2 DEF Update
    <2>2. run'[r] \in Context /\ run'[r] = [run[r] EXCEPT !.pc = "finish"]
      BY <1>1, <2>1 DEF TypeOK, Context, Phase
    <2>. QED BY <1>1, <1>2, <2>1, <2>2 DEF TypeOK, Moves, Elsewhere, KeepsReplay, Context
  <1>3. CASE run[r].made # {} /\ Update(r, [run[r] EXCEPT !.pc = "finish", !.made = {}, !.raised = TRUE])
    <2>1. run' = [run EXCEPT ![r] = [run[r] EXCEPT !.pc = "finish", !.made = {}, !.raised = TRUE]]
      BY <1>3 DEF Update
    <2>2. run'[r] \in Context /\ run'[r] = [run[r] EXCEPT !.pc = "finish", !.made = {}, !.raised = TRUE]
      BY <1>1, <2>1 DEF TypeOK, Context, Phase
    <2>. QED BY <1>1, <1>3, <2>1, <2>2 DEF TypeOK, Moves, Elsewhere, KeepsReplay, Context
  <1>. QED BY <1>2, <1>3 DEF PersistenceEnds

LEMMA FinishEffect ==
    ASSUME TypeOK, NEW r \in Run, Finish(r)
    PROVE  /\ Moves(r, {"finish"}, "ended") /\ KeepsReplay(r) /\ KeepsWork(r)
           /\ \/ run[r].events = {} /\ UNCHANGED <<cursor, failed, overlooked>>
              \/ /\ run[r].events # {}
                 /\ failed' = IF run[r].raised THEN failed \cup run[r].visible ELSE failed
                 /\ \E i \in DOMAIN log :
                       /\ IsLast(i, run[r].events)
                       /\ cursor' = log[i]
                       /\ overlooked' = overlooked \cup {e \in 1 .. log[i] : e \notin run[r].visible}
  <1>1. /\ run[r] \in Context /\ run[r].pc = "finish"
        /\ run' = [run EXCEPT ![r] = [run[r] EXCEPT !.pc = "ended"]]
    BY DEF TypeOK, Finish, Update
  <1>2. run'[r] \in Context /\ run'[r] = [run[r] EXCEPT !.pc = "ended"]
    BY <1>1 DEF TypeOK, Context, Phase
  <1>3. Moves(r, {"finish"}, "ended") /\ KeepsReplay(r) /\ KeepsWork(r)
    BY <1>1, <1>2 DEF TypeOK, Moves, Elsewhere, KeepsReplay, KeepsWork, Context
  <1>. QED BY <1>3 DEF Finish, CursorAfter

LEMMA KillEffect ==
    ASSUME TypeOK, NEW r \in Run, Kill(r)
    PROVE  /\ Moves(r, Phase \ {"new", "ended", "dead"}, "dead") /\ KeepsReplay(r)
           /\ run'[r].made = {} /\ run'[r].todo = {} /\ run'[r].found = {}
           /\ run'[r].born = run[r].born /\ run'[r].raised = run[r].raised
  <1>1. /\ run[r] \in Context /\ run[r].pc \in Phase \ {"new", "ended", "dead"}
        /\ run' = [run EXCEPT ![r] = [run[r] EXCEPT !.pc = "dead", !.made = {}, !.todo = {}, !.found = {}]]
    <2>1. run[r] \in Context /\ run[r].pc \notin {"new", "ended", "dead"}
      BY DEF TypeOK, Kill, Active
    <2>. QED BY <2>1, Fields DEF Kill, Update
  <1>2. /\ run'[r] \in Context
        /\ run'[r] = [run[r] EXCEPT !.pc = "dead", !.made = {}, !.todo = {}, !.found = {}]
    BY <1>1 DEF TypeOK, Context, Phase
  <1>. QED BY <1>1, <1>2 DEF TypeOK, Moves, Elsewhere, KeepsReplay, Context

-----------------------------------------------------------------------------
(***************************************************************************)
(* Nothing that a step may rely on later is taken back.                    *)
(***************************************************************************)
Grows ==
    /\ Created \subseteq Created' /\ \A e \in Created : says'[e] = says[e]
    /\ DOMAIN log \subseteq DOMAIN log' /\ \A i \in DOMAIN log : log'[i] = log[i]
    /\ DOMAIN rows \subseteq DOMAIN rows'
    /\ failed \subseteq failed' /\ overlooked \subseteq overlooked'

LEMMA EnvGrows ==
    ASSUME TypeOK, CreateEvent \/ AppendEvent \/ ClockTicks
    PROVE  /\ TypeOK' /\ Grows /\ UNCHANGED <<cursor, rows, run, failed, overlooked>>
  <1>1. CASE CreateEvent
    <2>1. PICK e \in Id \ Created, x \in Content :
             says' = [f \in Created \cup {e} |-> IF f = e THEN x ELSE says[f]]
      BY <1>1 DEF CreateEvent
    <2>2. /\ Created' = Created \cup {e} /\ Created' \subseteq Id /\ says' \in [Created' -> Content]
          /\ \A f \in Created : says'[f] = says[f]
      BY <2>1 DEF Created, TypeOK
    <2>3. log' = log /\ log' \in Seq(Created')
      BY <1>1, <2>2 DEF CreateEvent, TypeOK
    <2>. QED BY <1>1, <2>2, <2>3 DEF CreateEvent, TypeOK, Grows
  <1>2. CASE AppendEvent
    <2>1. PICK e \in Created : log' = Append(log, e)
      BY <1>2 DEF AppendEvent
    <2>2. says' = says /\ Created' = Created
      BY <1>2 DEF AppendEvent, Created
    <2>3. /\ log' \in Seq(Created') /\ DOMAIN log \subseteq DOMAIN log'
          /\ \A i \in DOMAIN log : log'[i] = log[i]
      BY <2>1, <2>2 DEF TypeOK
    <2>. QED BY <1>2, <2>2, <2>3 DEF AppendEvent, TypeOK, Grows
  <1>3. CASE ClockTicks
    BY <1>3 DEF ClockTicks, TypeOK, Grows, Created
  <1>. QED BY <1>1, <1>2, <1>3

\* A step of run r leaves the log alone and only adds to what is stored.
RunGrows(r) ==
    /\ UNCHANGED env
    /\ DOMAIN rows \subseteq DOMAIN rows' /\ failed \subseteq failed' /\ overlooked \subseteq overlooked'

LEMMA RunKeepsType ==
    ASSUME TypeOK, MemberInv, NEW r \in Run, StartRun(r) \/ RunStep(r) \/ Kill(r)
    PROVE  TypeOK' /\ RunGrows(r) /\ Grows
  <1>1. ASSUME UNCHANGED env, extractions' \in Nat, faults' \in Nat, cursor' \in Nat,
               DOMAIN rows' \subseteq Memory, rows' \in [DOMAIN rows' -> {"active", "faded"}],
               DOMAIN rows \subseteq DOMAIN rows', run' \in [Run -> Context],
               failed' \subseteq Id, overlooked' \subseteq Nat,
               failed \subseteq failed', overlooked \subseteq overlooked'
        PROVE  TypeOK' /\ RunGrows(r) /\ Grows
    BY <1>1 DEF TypeOK, RunGrows, Grows, env, Created
  <1>2. ASSUME UNCHANGED <<env, cursor, rows, failed, overlooked>>,
               extractions' \in Nat, faults' \in Nat, run' \in [Run -> Context]
        PROVE  TypeOK' /\ RunGrows(r) /\ Grows
    <2>1. UNCHANGED env /\ UNCHANGED cursor /\ UNCHANGED rows /\ UNCHANGED failed /\ UNCHANGED overlooked
      BY <1>2
    <2>. QED BY <1>1, <1>2, <2>1 DEF TypeOK
  <1>3. CASE StartRun(r)
    BY <1>2, <1>3, StartEffect DEF StartFacts, StartRun, TypeOK
  <1>4. CASE ReadCursor(r)
    BY <1>2, <1>4, CursorEffect DEF Moves, Elsewhere, ReadCursor, TypeOK
  <1>5. CASE ScanLog(r)
    BY <1>2, <1>5, ScanEffect DEF Moves, Elsewhere, ScanLog, TypeOK
  <1>6. CASE ReplayFails(r)
    BY <1>2, <1>6, ReplayFailsEffect DEF Moves, Elsewhere, ReplayFails, Fault, TypeOK
  <1>7. CASE Extract(r)
    <2>1. UNCHANGED <<env, cursor, rows, failed, overlooked>> /\ extractions' \in Nat /\ faults' \in Nat
      BY <1>7 DEF Extract, Fault, TypeOK
    <2>. QED BY <1>2, <1>7, <2>1, ExtractEffect DEF Moves, Elsewhere
  <1>8. CASE SearchSimilar(r)
    BY <1>2, <1>8, SearchEffect DEF Moves, Elsewhere, SearchSimilar, TypeOK
  <1>9. CASE Interfere(r)
    <2>1. UNCHANGED <<env, cursor, extractions, faults, failed, overlooked>>
      BY <1>9 DEF Interfere
    <2>2. run' \in [Run -> Context]
      BY <1>9, InterfereEffect DEF Moves, Elsewhere
    <2>3. PICK f \in run[r].found :
             rows' = [rows EXCEPT ![f.old] = IF f.action = "supersede" THEN "faded" ELSE "active"]
      BY <1>9, InterfereEffect
    <2>4. DOMAIN rows' = DOMAIN rows /\ rows' \in [DOMAIN rows' -> {"active", "faded"}]
      BY <2>3 DEF TypeOK
    <2>. QED BY <1>1, <2>1, <2>2, <2>4 DEF TypeOK
  <1>10. CASE InterferenceEnds(r)
    <2>1. UNCHANGED <<env, cursor, rows, failed, overlooked>> /\ extractions' \in Nat /\ faults' \in Nat
      BY <1>10 DEF InterferenceEnds, Fault, TypeOK
    <2>. QED BY <1>2, <1>10, <2>1, InterferenceEndsEffect DEF Moves, Elsewhere
  <1>11. CASE Persist(r)
    <2>1. UNCHANGED <<env, cursor, extractions, faults, failed, overlooked>>
      BY <1>11 DEF Persist
    <2>2. run' \in [Run -> Context]
      BY <1>11, PersistEffect DEF Moves, Elsewhere
    <2>3. PICK m \in run[r].made : rows' = Stored(m)
      BY <1>11, PersistEffect
    <2>4. m \in Memory
      BY <2>3, Fields DEF TypeOK
    <2>5. DOMAIN rows' = DOMAIN rows \cup {m} /\ rows' \in [DOMAIN rows' -> {"active", "faded"}]
      BY <2>3 DEF TypeOK, Stored
    <2>. QED BY <1>1, <2>1, <2>2, <2>4, <2>5 DEF TypeOK
  <1>12. CASE PersistenceEnds(r)
    <2>1. UNCHANGED <<env, cursor, rows, failed, overlooked>> /\ extractions' \in Nat /\ faults' \in Nat
      BY <1>12 DEF PersistenceEnds, Fault, TypeOK
    <2>. QED BY <1>2, <1>12, <2>1, PersistenceEndsEffect DEF Moves, Elsewhere
  <1>13. CASE Finish(r)
    <2>1. UNCHANGED <<env, rows, extractions, faults>> /\ run' \in [Run -> Context]
      BY <1>13, FinishEffect DEF Finish, Moves, Elsewhere
    <2>2. /\ cursor' \in Nat /\ failed' \subseteq Id /\ overlooked' \subseteq Nat
          /\ failed \subseteq failed' /\ overlooked \subseteq overlooked'
      <3>1. CASE UNCHANGED <<cursor, failed, overlooked>>
        BY <3>1 DEF TypeOK
      <3>2. CASE failed' = (IF run[r].raised THEN failed \cup run[r].visible ELSE failed)
                 /\ \E i \in DOMAIN log :
                       /\ cursor' = log[i]
                       /\ overlooked' = overlooked \cup {e \in 1 .. log[i] : e \notin run[r].visible}
        <4>1. run[r].visible \subseteq Id
          BY Fields DEF TypeOK
        <4>. QED BY <3>2, <4>1, LogFacts DEF TypeOK
      <3>. QED BY <3>1, <3>2, <1>13, FinishEffect
    <2>. QED BY <1>1, <2>1, <2>2 DEF TypeOK
  <1>14. CASE Kill(r)
    <2>1. UNCHANGED <<env, cursor, rows, failed, overlooked>> /\ extractions' \in Nat /\ faults' \in Nat
      BY <1>14 DEF Kill, Fault, TypeOK
    <2>. QED BY <1>2, <1>14, <2>1, KillEffect DEF Moves, Elsewhere
  <1>. QED BY <1>3, <1>4, <1>5, <1>6, <1>7, <1>8, <1>9, <1>10, <1>11, <1>12, <1>13, <1>14 DEF RunStep

-----------------------------------------------------------------------------
(***************************************************************************)
(* Control: what a run holds where it stands.                              *)
(***************************************************************************)
LEMMA PhaseStep ==
    ASSUME TypeOK, MemberInv, \A q \in Run : PhaseInv(q), NEW r \in Run,
           StartRun(r) \/ RunStep(r) \/ Kill(r)
    PROVE  (\A q \in Run : PhaseInv(q))'
  <1>1. CASE StartRun(r)
    BY <1>1, StartEffect DEF StartFacts, PhaseInv, Early
  <1>2. CASE ReadCursor(r)
    BY <1>2, CursorEffect DEF Moves, Elsewhere, KeepsWork, PhaseInv, Early
  <1>3. CASE ScanLog(r)
    BY <1>3, ScanEffect DEF Moves, Elsewhere, KeepsWork, PhaseInv, Early
  <1>4. CASE ReplayFails(r)
    BY <1>4, ReplayFailsEffect DEF Moves, Elsewhere, KeepsReplay, KeepsWork, PhaseInv, Early
  <1>5. CASE Extract(r)
    BY <1>5, ExtractEffect DEF Moves, Elsewhere, KeepsReplay, PhaseInv, Early
  <1>6. CASE SearchSimilar(r)
    BY <1>6, SearchEffect DEF Moves, Elsewhere, KeepsReplay, PhaseInv, Early
  <1>7. CASE Interfere(r)
    BY <1>7, InterfereEffect DEF Moves, Elsewhere, KeepsReplay, PhaseInv, Early
  <1>8. CASE InterferenceEnds(r)
    BY <1>8, InterferenceEndsEffect DEF Moves, Elsewhere, KeepsReplay, PhaseInv, Early
  <1>9. CASE Persist(r)
    BY <1>9, PersistEffect DEF Moves, Elsewhere, KeepsReplay, PhaseInv, Early
  <1>10. CASE PersistenceEnds(r)
    BY <1>10, PersistenceEndsEffect DEF Moves, Elsewhere, KeepsReplay, PhaseInv, Early
  <1>11. CASE Finish(r)
    BY <1>11, FinishEffect DEF Moves, Elsewhere, KeepsReplay, KeepsWork, PhaseInv, Early
  <1>12. CASE Kill(r)
    BY <1>12, KillEffect DEF Moves, Elsewhere, KeepsReplay, PhaseInv, Early
  <1>. QED BY <1>1, <1>2, <1>3, <1>4, <1>5, <1>6, <1>7, <1>8, <1>9, <1>10, <1>11, <1>12 DEF RunStep

\* A run that has made its memories keeps what it read, its age and its fate.
Settled ==
    \A s \in Run : run[s].pc \notin Early =>
        /\ run'[s].pc \notin Early /\ run'[s].events = run[s].events /\ run'[s].born = run[s].born
        /\ run[s].pc = "dead" => run'[s].pc = "dead"
        /\ run[s].raised => run'[s].raised

LEMMA RunsSettle ==
    ASSUME TypeOK, MemberInv, \A q \in Run : PhaseInv(q), NEW r \in Run,
           StartRun(r) \/ RunStep(r) \/ Kill(r)
    PROVE  Settled
  <1>1. CASE StartRun(r)
    BY <1>1, StartEffect DEF StartFacts, Settled, Early
  <1>2. CASE ReadCursor(r)
    BY <1>2, CursorEffect DEF Moves, Elsewhere, Settled, Early
  <1>3. CASE ScanLog(r)
    BY <1>3, ScanEffect DEF Moves, Elsewhere, Settled, Early
  <1>4. CASE ReplayFails(r)
    BY <1>4, ReplayFailsEffect DEF Moves, Elsewhere, Settled, Early
  <1>5. CASE Extract(r)
    BY <1>5, ExtractEffect DEF Moves, Elsewhere, Settled, Early
  <1>6. CASE SearchSimilar(r)
    BY <1>6, SearchEffect DEF Moves, Elsewhere, KeepsReplay, Settled, Early
  <1>7. CASE Interfere(r)
    BY <1>7, InterfereEffect DEF Moves, Elsewhere, KeepsReplay, Settled, Early
  <1>8. CASE InterferenceEnds(r)
    BY <1>8, InterferenceEndsEffect DEF Moves, Elsewhere, KeepsReplay, Settled, Early
  <1>9. CASE Persist(r)
    BY <1>9, PersistEffect DEF Moves, Elsewhere, KeepsReplay, Settled, Early
  <1>10. CASE PersistenceEnds(r)
    BY <1>10, PersistenceEndsEffect DEF Moves, Elsewhere, KeepsReplay, Settled, Early
  <1>11. CASE Finish(r)
    BY <1>11, FinishEffect DEF Moves, Elsewhere, KeepsReplay, KeepsWork, Settled, Early
  <1>12. CASE Kill(r)
    BY <1>12, KillEffect DEF Moves, Elsewhere, KeepsReplay, Settled, Early
  <1>. QED BY <1>1, <1>2, <1>3, <1>4, <1>5, <1>6, <1>7, <1>8, <1>9, <1>10, <1>11, <1>12 DEF RunStep

-----------------------------------------------------------------------------
(***************************************************************************)
(* Membership: memories come from the events of their runs.                *)
(***************************************************************************)
MembersOf(r) ==
    /\ run[r].events \subseteq DOMAIN log
    /\ run[r].visible \subseteq Created
    /\ \A m \in run[r].made : MadeBy(m, r)
    /\ run[r].todo \subseteq run[r].made
    /\ \A m \in run[r].todo : m.kind = "fact"
    /\ \A f \in run[r].found : f.old \in DOMAIN rows

RowMembers == \A m \in DOMAIN rows : MadeBy(m, m.run)

LEMMA MemberParts == MemberInv <=> RowMembers /\ \A r \in Run : MembersOf(r)
  BY DEF MemberInv, RowMembers, MembersOf

\* Whoever keeps or gives up some of his memories, findings and tasks stays in order.
LEMMA MembersKept ==
    ASSUME Grows, Settled, NEW s \in Run, MembersOf(s),
           run'[s].events = run[s].events, run'[s].visible = run[s].visible,
           run'[s].made \subseteq run[s].made,
           run'[s].todo = {} \/ (run'[s].todo = run[s].todo /\ run'[s].made = run[s].made),
           run'[s].found \subseteq run[s].found
    PROVE  MembersOf(s)'
  <1>1. run'[s].events \subseteq DOMAIN log' /\ run'[s].visible \subseteq Created'
    BY DEF MembersOf, Grows
  <1>2. \A m \in run'[s].made : MadeBy(m, s)'
    BY DEF MembersOf, MadeBy, Settled
  <1>3. /\ run'[s].todo \subseteq run'[s].made
        /\ \A m \in run'[s].todo : m.kind = "fact"
    BY DEF MembersOf
  <1>4. \A f \in run'[s].found : f.old \in DOMAIN rows'
    BY DEF MembersOf, Grows
  <1>. QED BY <1>1, <1>2, <1>3, <1>4 DEF MembersOf

LEMMA RowMembersKept ==
    ASSUME TypeOK, Settled, RowMembers, DOMAIN rows' = DOMAIN rows
    PROVE  RowMembers'
  <1>1. \A m \in DOMAIN rows : m.run \in Run
    BY DEF TypeOK, Memory
  <1>. QED BY <1>1 DEF RowMembers, MadeBy, Settled

LEMMA MemberStep ==
    ASSUME TypeOK, MemberInv, \A q \in Run : PhaseInv(q), NEW r \in Run,
           StartRun(r) \/ RunStep(r) \/ Kill(r)
    PROVE  MemberInv'
  <1>1. Settled /\ Grows /\ UNCHANGED env /\ TypeOK'
    BY RunsSettle, RunKeepsType DEF RunGrows
  <1>2. RowMembers /\ \A s \in Run : MembersOf(s)
    BY MemberParts
  <1>3. SUFFICES RowMembers' /\ \A s \in Run : MembersOf(s)'
    BY DEF MemberInv, RowMembers, MembersOf
  <1>4. ASSUME Elsewhere(r), NEW s \in Run, s # r PROVE MembersOf(s)'
    <2>1. run'[s] = run[s]
      BY <1>4 DEF Elsewhere
    <2>. QED BY <1>1, <1>2, <2>1, MembersKept
  <1>5. CASE UNCHANGED rows /\ Elsewhere(r) /\ MembersOf(r)'
    <2>1. RowMembers'
      BY <1>1, <1>2, <1>5, RowMembersKept
    <2>. QED BY <1>4, <1>5, <2>1
  <1>6. CASE StartRun(r)
    <2>1. UNCHANGED rows
      BY <1>6 DEF StartRun
    <2>2. MembersOf(r)'
      BY <1>6, StartEffect DEF StartFacts, MembersOf
    <2>3. ASSUME NEW s \in Run, s # r PROVE MembersOf(s)'
      <3>1. /\ run'[s].events = run[s].events /\ run'[s].visible = run[s].visible
            /\ run'[s].made = run[s].made /\ run'[s].todo = run[s].todo /\ run'[s].found = run[s].found
        BY <1>6, <2>3, StartEffect DEF StartFacts
      <3>. QED BY <1>1, <1>2, <3>1, MembersKept
    <2>4. RowMembers'
      BY <1>1, <1>2, <2>1, RowMembersKept
    <2>. QED BY <2>2, <2>3, <2>4
  <1>7. CASE ReadCursor(r)
    <2>1. Elsewhere(r) /\ UNCHANGED rows
      BY <1>7, CursorEffect DEF Moves, ReadCursor
    <2>2. MembersOf(r)'
      BY <1>1, <1>2, <1>7, CursorEffect, MembersKept DEF KeepsWork
    <2>. QED BY <1>5, <2>1, <2>2
  <1>8. CASE ScanLog(r)
    <2>1. Elsewhere(r) /\ UNCHANGED rows /\ UNCHANGED log /\ Created' = Created
      BY <1>8, ScanEffect DEF Moves, ScanLog, env, Created
    <2>2. run'[r].made = {} /\ run'[r].todo = {} /\ run'[r].found = {}
      BY <1>8, ScanEffect DEF Moves, KeepsWork, PhaseInv, Early
    <2>3. run'[r].events \subseteq DOMAIN log
      BY <1>8, ScanEffect DEF FirstOfContent, Taken
    <2>4. run'[r].visible \subseteq Created
      BY <1>8, ScanEffect, LogFacts
    <2>5. MembersOf(r)'
      BY <2>1, <2>2, <2>3, <2>4 DEF MembersOf
    <2>. QED BY <1>5, <2>1, <2>5
  <1>9. CASE ReplayFails(r)
    <2>1. Elsewhere(r) /\ UNCHANGED rows
      BY <1>9, ReplayFailsEffect DEF Moves, ReplayFails
    <2>2. MembersOf(r)'
      BY <1>1, <1>2, <1>9, ReplayFailsEffect, MembersKept DEF KeepsWork, KeepsReplay
    <2>. QED BY <1>5, <2>1, <2>2
  <1>10. CASE Extract(r)
    <2>1. Elsewhere(r) /\ UNCHANGED rows /\ run[r].pc = "extract" /\ run'[r].pc = "interfere"
      BY <1>10, ExtractEffect DEF Moves, Extract
    <2>2. run'[r].events = run[r].events /\ run'[r].visible = run[r].visible /\ run'[r].found = {}
      BY <1>10, <2>1, ExtractEffect DEF KeepsReplay, PhaseInv
    <2>3. \A m \in run'[r].made : MadeBy(m, r)'
      BY <1>10, <2>1, <2>2, ExtractEffect DEF MadeBy, Early
    <2>4. run'[r].todo \subseteq run'[r].made /\ \A m \in run'[r].todo : m.kind = "fact"
      BY <1>10, ExtractEffect
    <2>5. run'[r].events \subseteq DOMAIN log' /\ run'[r].visible \subseteq Created'
      BY <1>1, <1>2, <2>2 DEF MembersOf, Grows
    <2>6. MembersOf(r)'
      BY <2>2, <2>3, <2>4, <2>5 DEF MembersOf
    <2>. QED BY <1>5, <2>1, <2>6
  <1>11. CASE SearchSimilar(r)
    <2>1. Elsewhere(r) /\ UNCHANGED rows
      BY <1>11, SearchEffect DEF Moves, SearchSimilar
    <2>2. /\ run'[r].events = run[r].events /\ run'[r].visible = run[r].visible
          /\ run'[r].made = run[r].made /\ run'[r].todo \subseteq run[r].todo
          /\ \A f \in run'[r].found : f.old \in DOMAIN rows
      BY <1>11, SearchEffect DEF KeepsReplay
    <2>3. \A m \in run'[r].made : MadeBy(m, r)'
      BY <1>1, <1>2, <2>2 DEF MembersOf, MadeBy, Settled
    <2>4. MembersOf(r)'
      BY <1>1, <1>2, <2>1, <2>2, <2>3 DEF MembersOf, Grows
    <2>. QED BY <1>5, <2>1, <2>4
  <1>12. CASE Interfere(r)
    <2>1. Elsewhere(r) /\ DOMAIN rows' = DOMAIN rows
      BY <1>12, InterfereEffect DEF Moves
    <2>2. MembersOf(r)'
      BY <1>1, <1>2, <1>12, InterfereEffect, MembersKept DEF KeepsReplay
    <2>3. RowMembers'
      BY <1>1, <1>2, <2>1, RowMembersKept
    <2>. QED BY <1>4, <2>1, <2>2, <2>3
  <1>13. CASE InterferenceEnds(r)
    <2>1. Elsewhere(r) /\ UNCHANGED rows
      BY <1>13, InterferenceEndsEffect DEF Moves, InterferenceEnds
    <2>2. MembersOf(r)'
      BY <1>1, <1>2, <1>13, InterferenceEndsEffect, MembersKept DEF KeepsReplay
    <2>. QED BY <1>5, <2>1, <2>2
  <1>14. CASE Persist(r)
    <2>1. Elsewhere(r) /\ KeepsReplay(r) /\ run[r].pc = "persist"
      BY <1>14, PersistEffect DEF Moves
    <2>2. PICK m \in run[r].made : run'[r].made = run[r].made \ {m} /\ rows' = Stored(m)
      BY <1>14, PersistEffect
    <2>3. run'[r].todo = {} /\ run'[r].found = {}
      BY <1>14, <2>1, PersistEffect DEF PhaseInv
    <2>4. MembersOf(r)'
      <3>1. /\ run'[r].events = run[r].events /\ run'[r].visible = run[r].visible
            /\ run'[r].made \subseteq run[r].made /\ run'[r].todo = {}
            /\ run'[r].found \subseteq run[r].found
        BY <2>1, <2>2, <2>3 DEF KeepsReplay
      <3>. QED BY <1>1, <1>2, <3>1, MembersKept
    <2>5. DOMAIN rows' = DOMAIN rows \cup {m} /\ MadeBy(m, r) /\ m.run = r
      BY <1>2, <2>2 DEF Stored, MembersOf, MadeBy
    <2>6. \A n \in DOMAIN rows' : MadeBy(n, n.run) /\ n.run \in Run
      BY <1>2, <2>5 DEF RowMembers, TypeOK, Memory
    <2>7. RowMembers'
      BY <1>1, <2>6 DEF RowMembers, MadeBy, Settled
    <2>. QED BY <1>4, <2>1, <2>4, <2>7
  <1>15. CASE PersistenceEnds(r)
    <2>1. Elsewhere(r) /\ UNCHANGED rows /\ run[r].pc = "persist"
      BY <1>15, PersistenceEndsEffect DEF Moves, PersistenceEnds
    <2>2. run'[r].todo = {} /\ run'[r].found = {} /\ run'[r].made = {} /\ KeepsReplay(r)
      BY <1>15, <2>1, PersistenceEndsEffect DEF PhaseInv
    <2>3. MembersOf(r)'
      <3>1. /\ run'[r].events = run[r].events /\ run'[r].visible = run[r].visible
            /\ run'[r].made \subseteq run[r].made /\ run'[r].todo = {}
            /\ run'[r].found \subseteq run[r].found
        BY <2>2 DEF KeepsReplay
      <3>. QED BY <1>1, <1>2, <3>1, MembersKept
    <2>. QED BY <1>5, <2>1, <2>3
  <1>16. CASE Finish(r)
    <2>1. Elsewhere(r) /\ UNCHANGED rows
      BY <1>16, FinishEffect DEF Moves, Finish
    <2>2. MembersOf(r)'
      BY <1>1, <1>2, <1>16, FinishEffect, MembersKept DEF KeepsWork, KeepsReplay
    <2>. QED BY <1>5, <2>1, <2>2
  <1>17. CASE Kill(r)
    <2>1. Elsewhere(r) /\ UNCHANGED rows
      BY <1>17, KillEffect DEF Moves, Kill
    <2>2. MembersOf(r)'
      <3>1. /\ run'[r].events = run[r].events /\ run'[r].visible = run[r].visible
            /\ run'[r].made \subseteq run[r].made /\ run'[r].todo = {}
            /\ run'[r].found \subseteq run[r].found
        BY <1>17, KillEffect DEF KeepsReplay
      <3>. QED BY <1>1, <1>2, <3>1, MembersKept
    <2>. QED BY <1>5, <2>1, <2>2
  <1>. QED BY <1>6, <1>7, <1>8, <1>9, <1>10, <1>11, <1>12, <1>13, <1>14, <1>15, <1>16, <1>17 DEF RunStep

-----------------------------------------------------------------------------
(***************************************************************************)
(* Natural numbers are well ordered: the interval up to a number is        *)
(* finite, and strict inclusion of finite sets is well founded.            *)
(***************************************************************************)
LEMMA LeastOf ==
    ASSUME NEW S \in SUBSET Nat, S # {}
    PROVE  \E i \in S : \A j \in S : i <= j
  <1>. DEFINE Down(i) == 0 .. i
              T == {Down(i) : i \in S}
  <1>1. IsWellFoundedOn(StrictSubsetOrdering(Nat), FiniteSubsetsOf(Nat))
    BY FS_StrictSubsetOrderingWellFounded
  <1>2. ASSUME NEW i \in S PROVE Down(i) \in FiniteSubsetsOf(Nat)
    <2>1. IsFiniteSet(Down(i))
      BY FS_Interval
    <2>. QED BY <2>1 DEF FiniteSubsetsOf
  <1>3. T \subseteq FiniteSubsetsOf(Nat) /\ T # {}
    BY <1>2
  <1>4. PICK x \in T : \A y \in T : ~ (<<y, x>> \in StrictSubsetOrdering(Nat))
    <2>. HIDE DEF T
    <2>. QED BY <1>1, <1>3, WFMin
  <1>5. PICK i \in S : x = Down(i)
    BY <1>4
  <1>6. ASSUME NEW j \in S, j < i PROVE FALSE
    <2>1. Down(j) \in T
      OBVIOUS
    <2>2. Down(j) \subseteq Down(i) /\ Down(j) # Down(i)
      <3>1. i \in Down(i) /\ i \notin Down(j)
        BY <1>6
      <3>. QED BY <3>1, <1>6
    <2>3. <<Down(j), x>> \in StrictSubsetOrdering(Nat)
      BY <2>2, <1>5 DEF StrictSubsetOrdering
    <2>. QED BY <1>4, <2>1, <2>3
  <1>. QED BY <1>6

\* Deduplication drops no content.
LEMMA FirstCovers ==
    ASSUME DOMAIN log \subseteq Nat, NEW S \in SUBSET DOMAIN log, NEW i \in S
    PROVE  \E j \in FirstOfContent(S) : says[log[j]] = says[log[i]]
  <1>. DEFINE same == {j \in S : says[log[j]] = says[log[i]]}
  <1>1. PICK j \in same : \A k \in same : j <= k
    <2>1. same \in SUBSET Nat /\ i \in same
      OBVIOUS
    <2>. HIDE DEF same
    <2>. QED BY <2>1, LeastOf
  <1>2. ASSUME NEW k \in S, k < j PROVE says[log[k]] # says[log[j]]
    BY <1>1, <1>2
  <1>. QED BY <1>1, <1>2 DEF FirstOfContent

-----------------------------------------------------------------------------
(***************************************************************************)
(* Loss: what lies before a cursor is accounted for.                       *)
(***************************************************************************)
LEMMA PlaceFacts ==
    ASSUME TypeOK, MemberInv, NEW m \in DOMAIN rows
    PROVE  m.run \in Run /\ m.place \in DOMAIN log /\ log[m.place] \in Created
  <1>1. m.run \in Run
    BY DEF TypeOK, Memory
  <1>. QED BY <1>1, LogFacts DEF MemberInv, MadeBy

LEMMA ContentStays ==
    ASSUME TypeOK, Grows, NEW i \in DOMAIN log
    PROVE  i \in DOMAIN log' /\ log'[i] = log[i] /\ says'[log'[i]] = says[log[i]]
  BY LogFacts DEF Grows

LEMMA AccountedStays ==
    ASSUME TypeOK, MemberInv, Grows, NEW e \in Id, Accounted(e)
    PROVE  Accounted(e)'
  <1>1. CASE e \in failed \cup overlooked
    BY <1>1 DEF Accounted, Grows
  <1>2. CASE e \in Created /\ Remembered(says[e])
    <2>1. PICK m \in DOMAIN rows : m.kind = "episode" /\ says[log[m.place]] = says[e]
      BY <1>2 DEF Remembered, ContentOf
    <2>2. m \in DOMAIN rows' /\ says'[log'[m.place]] = says'[e] /\ e \in Created'
      BY <1>2, <2>1, PlaceFacts, ContentStays DEF Grows
    <2>. QED BY <2>1, <2>2 DEF Accounted, Remembered, ContentOf
  <1>. QED BY <1>1, <1>2 DEF Accounted

LEMMA CoversKept ==
    ASSUME TypeOK, MemberInv, Grows, NEW s \in Run, Covers(s),
           run'[s].events = run[s].events, run'[s].visible = run[s].visible,
           run'[s].cursor = run[s].cursor
    PROVE  Covers(s)'
  <1>1. run[s].events \subseteq DOMAIN log /\ run[s].visible \subseteq Created
    BY DEF MemberInv
  <1>2. \A i \in run'[s].events : log'[i] > run'[s].cursor
    BY <1>1, ContentStays DEF Covers
  <1>3. ASSUME NEW e \in run'[s].visible, e > run'[s].cursor
        PROVE  \E i \in run'[s].events : says'[log'[i]] = says'[e]
    <2>1. PICK i \in run[s].events : says[log[i]] = says[e]
      BY <1>3 DEF Covers
    <2>2. says'[log'[i]] = says[log[i]] /\ says'[e] = says[e]
      BY <1>1, ContentStays DEF Grows
    <2>. QED BY <2>1, <2>2
  <1>. QED BY <1>2, <1>3 DEF Covers

LEMMA ScanCovers ==
    ASSUME TypeOK, NEW r \in Run, ScanLog(r)
    PROVE  Covers(r)'
  <1>1. log' = log /\ says' = says
    BY DEF ScanLog, env
  <1>2. /\ run'[r].cursor = run[r].cursor /\ run'[r].events = FirstOfContent(Taken(r))
        /\ run'[r].visible = {log[i] : i \in {j \in DOMAIN log : InWindow(log[j])}}
    BY ScanEffect
  <1>3. \A i \in run'[r].events : log[i] > run[r].cursor
    BY <1>2 DEF FirstOfContent, Taken, Unconsolidated
  <1>4. ASSUME NEW e \in run'[r].visible, e > run[r].cursor
        PROVE  \E i \in run'[r].events : says[log[i]] = says[e]
    <2>1. PICK j \in DOMAIN log : InWindow(log[j]) /\ e = log[j]
      BY <1>2
    <2>2. j \in Taken(r)
      BY <1>4, <2>1 DEF Taken, Unconsolidated
    <2>3. Taken(r) \in SUBSET DOMAIN log
      BY DEF Taken
    <2>4. \E i \in FirstOfContent(Taken(r)) : says[log[i]] = says[log[j]]
      BY <2>2, <2>3, FirstCovers, LogFacts
    <2>. QED BY <1>2, <2>1, <2>4
  <1>. QED BY <1>1, <1>2, <1>3, <1>4 DEF Covers

\* A run at work that gives up no memory, or stores it, keeps all its episodes.
LEMMA CompleteKept ==
    ASSUME Grows, NEW s \in Run, Complete(s), run[s].pc \in Working,
           run'[s].events = run[s].events, run'[s].raised = run[s].raised,
           run[s].made \subseteq run'[s].made \cup DOMAIN rows'
    PROVE  Complete(s)'
  BY DEF Complete, Grows, Made

\* The cursor that a finished run sets leaves nothing behind without an account.
LEMMA FinishExplains ==
    ASSUME TypeOK, MemberInv, NEW r \in Run, PhaseInv(r), Finish(r), TypeOK', Grows,
           Explained(run[r].cursor), Covers(r), Complete(r), NEW i \in DOMAIN log,
           failed' = IF run[r].raised THEN failed \cup run[r].visible ELSE failed,
           overlooked' = overlooked \cup {e \in 1 .. log[i] : e \notin run[r].visible},
           NEW e \in Id, e <= log[i]
    PROVE  Accounted(e)'
  <1>1. CASE e \notin run[r].visible
    <2>1. e \in 1 .. log[i]
      BY Ids, LogFacts DEF TypeOK
    <2>. QED BY <1>1, <2>1 DEF Accounted
  <1>2. CASE e \in run[r].visible /\ run[r].raised
    BY <1>2 DEF Accounted
  <1>3. CASE e <= run[r].cursor
    BY <1>3, AccountedStays DEF Explained
  <1>4. CASE e \in run[r].visible /\ ~run[r].raised /\ e > run[r].cursor
    <2>1. PICK j \in run[r].events : says[log[j]] = says[e]
      BY <1>4 DEF Covers
    <2>2. run[r].pc = "finish" /\ run[r].made = {}
      BY FinishEffect DEF Moves, PhaseInv
    <2>3. Made("episode", r, j) \in DOMAIN rows
      BY <1>4, <2>1, <2>2 DEF Complete, Working
    <2>4. Remembered(says[e]) /\ e \in Created
      BY <1>4, <2>1, <2>3 DEF Remembered, ContentOf, Made, MemberInv
    <2>. QED BY <2>4, AccountedStays DEF Accounted
  <1>5. e \in Nat /\ run[r].cursor \in Nat
    BY Ids, Fields DEF TypeOK
  <1>. QED BY <1>1, <1>2, <1>3, <1>4, <1>5

CursorOf(r) == Explained(run[r].cursor) /\ Covers(r) /\ Complete(r)

LEMMA CursorParts == CursorInv <=> Explained(cursor) /\ \A r \in Run : CursorOf(r)
  BY DEF CursorInv, CursorOf

\* A run that leaves its replay, its memories and its failures as they are.
LEMMA CursorOfKept ==
    ASSUME TypeOK, MemberInv, Grows, NEW s \in Run, CursorOf(s),
           run'[s].cursor = run[s].cursor, run'[s].events = run[s].events,
           run'[s].visible = run[s].visible, run'[s].raised = run[s].raised,
           run'[s].pc \in Working => run[s].pc \in Working,
           run[s].made \subseteq run'[s].made \cup DOMAIN rows'
    PROVE  CursorOf(s)'
  <1>1. Explained(run[s].cursor)'
    BY AccountedStays DEF CursorOf, Explained
  <1>2. Covers(s)'
    BY CoversKept DEF CursorOf
  <1>3. Complete(s)'
    BY CompleteKept DEF CursorOf, Complete
  <1>. QED BY <1>1, <1>2, <1>3 DEF CursorOf, Explained

LEMMA CursorStep ==
    ASSUME TypeOK, MemberInv, \A q \in Run : PhaseInv(q), CursorInv, NEW r \in Run,
           StartRun(r) \/ RunStep(r) \/ Kill(r)
    PROVE  CursorInv'
  <1>1. Grows /\ UNCHANGED env /\ TypeOK' /\ DOMAIN rows \subseteq DOMAIN rows'
    BY RunKeepsType DEF RunGrows
  <1>2. Explained(cursor) /\ \A s \in Run : CursorOf(s)
    BY CursorParts
  <1>3. SUFFICES Explained(cursor)' /\ \A s \in Run : CursorOf(s)'
    BY DEF CursorInv, CursorOf
  <1>4. ASSUME Elsewhere(r), NEW s \in Run, s # r PROVE CursorOf(s)'
    <2>1. run'[s] = run[s]
      BY <1>4 DEF Elsewhere
    <2>. QED BY <1>1, <1>2, <2>1, CursorOfKept
  <1>5. ASSUME cursor' = cursor PROVE Explained(cursor)'
    BY <1>1, <1>2, <1>5, AccountedStays DEF Explained
  <1>6. CASE StartRun(r)
    <2>1. cursor' = cursor /\ NoId = 0
      BY <1>6 DEF StartRun, NoId
    <2>2. CursorOf(r)'
      <3>1. /\ run'[r].events = {} /\ run'[r].visible = {} /\ run'[r].cursor = 0
            /\ run'[r].pc = "replay"
        BY <1>6, <2>1, StartEffect DEF StartFacts
      <3>2. \A e \in Id : ~(e <= 0)
        BY Ids
      <3>. QED BY <3>1, <3>2 DEF CursorOf, Explained, Covers, Complete, Working
    <2>3. ASSUME NEW s \in Run, s # r PROVE CursorOf(s)'
      <3>1. /\ run'[s].events = run[s].events /\ run'[s].visible = run[s].visible
            /\ run'[s].made = run[s].made /\ run'[s].raised = run[s].raised
            /\ run'[s].cursor = run[s].cursor /\ run'[s].pc = run[s].pc
        BY <1>6, <2>3, StartEffect DEF StartFacts
      <3>. QED BY <1>1, <1>2, <3>1, CursorOfKept
    <2>. QED BY <1>5, <2>1, <2>2, <2>3
  <1>7. CASE ReadCursor(r)
    <2>1. Elsewhere(r) /\ cursor' = cursor /\ run'[r].cursor = cursor
      BY <1>7, CursorEffect DEF Moves, ReadCursor
    <2>2. run'[r].events = {} /\ run'[r].visible = {} /\ run'[r].pc = "scan"
      BY <1>7, CursorEffect DEF Moves, PhaseInv
    <2>3. CursorOf(r)'
      BY <1>5, <2>1, <2>2 DEF CursorOf, Covers, Complete, Working, Explained
    <2>. QED BY <1>4, <1>5, <2>1, <2>3
  <1>8. CASE ScanLog(r)
    <2>1. Elsewhere(r) /\ cursor' = cursor
      BY <1>8, ScanEffect DEF Moves, ScanLog
    <2>2. run'[r].pc = "extract" /\ run'[r].cursor = run[r].cursor
      BY <1>8, ScanEffect DEF Moves
    <2>3. Covers(r)'
      BY <1>8, ScanCovers
    <2>4. Explained(run[r].cursor)'
      BY <1>1, <1>2, <2>2, AccountedStays DEF CursorOf, Explained
    <2>5. CursorOf(r)'
      BY <2>2, <2>3, <2>4 DEF CursorOf, Complete, Working, Explained
    <2>. QED BY <1>4, <1>5, <2>1, <2>5
  <1>9. CASE ReplayFails(r)
    <2>1. Elsewhere(r) /\ cursor' = cursor
      BY <1>9, ReplayFailsEffect DEF Moves, ReplayFails
    <2>2. CursorOf(r)'
      BY <1>1, <1>2, <1>9, ReplayFailsEffect, CursorOfKept DEF Moves, KeepsReplay, KeepsWork, Working
    <2>. QED BY <1>4, <1>5, <2>1, <2>2
  <1>10. CASE Extract(r)
    <2>1. Elsewhere(r) /\ cursor' = cursor /\ KeepsReplay(r)
      BY <1>10, ExtractEffect DEF Moves, Extract
    <2>2. Covers(r)'
      BY <1>1, <1>2, <2>1, CoversKept DEF CursorOf, KeepsReplay
    <2>3. Explained(run[r].cursor)'
      BY <1>1, <1>2, <2>1, AccountedStays DEF CursorOf, Explained, KeepsReplay
    <2>4. Complete(r)'
      <3>1. ~run'[r].raised => \A i \in run'[r].events : Made("episode", r, i) \in run'[r].made
        BY <1>10, <2>1, ExtractEffect DEF KeepsReplay
      <3>. QED BY <3>1 DEF Complete, Made
    <2>5. CursorOf(r)'
      BY <2>2, <2>3, <2>4 DEF CursorOf
    <2>. QED BY <1>4, <1>5, <2>1, <2>5
  <1>11. CASE SearchSimilar(r)
    <2>1. Elsewhere(r) /\ cursor' = cursor
      BY <1>11, SearchEffect DEF Moves, SearchSimilar
    <2>2. CursorOf(r)'
      BY <1>1, <1>2, <1>11, SearchEffect, CursorOfKept DEF Moves, KeepsReplay, Working
    <2>. QED BY <1>4, <1>5, <2>1, <2>2
  <1>12. CASE Interfere(r)
    <2>1. Elsewhere(r) /\ cursor' = cursor
      BY <1>12, InterfereEffect DEF Moves, Interfere
    <2>2. CursorOf(r)'
      BY <1>1, <1>2, <1>12, InterfereEffect, CursorOfKept DEF Moves, KeepsReplay, Working
    <2>. QED BY <1>4, <1>5, <2>1, <2>2
  <1>13. CASE InterferenceEnds(r)
    <2>1. Elsewhere(r) /\ cursor' = cursor
      BY <1>13, InterferenceEndsEffect DEF Moves, InterferenceEnds
    <2>2. CursorOf(r)'
      BY <1>1, <1>2, <1>13, InterferenceEndsEffect, CursorOfKept DEF Moves, KeepsReplay, Working
    <2>. QED BY <1>4, <1>5, <2>1, <2>2
  <1>14. CASE Persist(r)
    <2>1. Elsewhere(r) /\ cursor' = cursor
      BY <1>14, PersistEffect DEF Moves, Persist
    <2>2. run[r].made \subseteq run'[r].made \cup DOMAIN rows'
      BY <1>14, PersistEffect DEF Stored
    <2>3. CursorOf(r)'
      BY <1>1, <1>2, <1>14, <2>2, PersistEffect, CursorOfKept DEF Moves, KeepsReplay, Working
    <2>. QED BY <1>4, <1>5, <2>1, <2>3
  <1>15. CASE PersistenceEnds(r)
    <2>1. Elsewhere(r) /\ cursor' = cursor /\ KeepsReplay(r) /\ run[r].pc \in Working
      BY <1>15, PersistenceEndsEffect DEF Moves, PersistenceEnds, Working
    <2>2. Covers(r)'
      BY <1>1, <1>2, <2>1, CoversKept DEF CursorOf, KeepsReplay
    <2>3. Explained(run[r].cursor)'
      BY <1>1, <1>2, <2>1, AccountedStays DEF CursorOf, Explained, KeepsReplay
    <2>4. Complete(r)'
      <3>1. CASE run[r].made # {}
        BY <1>15, <3>1, PersistenceEndsEffect DEF Complete
      <3>2. CASE run[r].made = {}
        <4>1. run'[r].raised = run[r].raised /\ run'[r].events = run[r].events
          BY <1>15, <2>1, <3>2, PersistenceEndsEffect DEF KeepsReplay
        <4>. QED BY <1>1, <1>2, <2>1, <3>2, <4>1, CompleteKept DEF CursorOf
      <3>. QED BY <3>1, <3>2
    <2>5. CursorOf(r)'
      BY <2>2, <2>3, <2>4 DEF CursorOf
    <2>. QED BY <1>4, <1>5, <2>1, <2>5
  <1>16. CASE Finish(r)
    <2>1. Elsewhere(r) /\ KeepsReplay(r) /\ KeepsWork(r) /\ run'[r].pc = "ended"
      BY <1>16, FinishEffect DEF Moves
    <2>2. CursorOf(r)'
      BY <1>1, <1>2, <2>1, CursorOfKept DEF KeepsReplay, KeepsWork, Working
    <2>3. Explained(cursor)'
      <3>1. CASE UNCHANGED <<cursor, failed, overlooked>>
        BY <1>5, <3>1
      <3>2. ASSUME failed' = IF run[r].raised THEN failed \cup run[r].visible ELSE failed,
                   NEW i \in DOMAIN log, cursor' = log[i],
                   overlooked' = overlooked \cup {e \in 1 .. log[i] : e \notin run[r].visible}
            PROVE  Explained(cursor)'
        <4>1. Explained(run[r].cursor) /\ Covers(r) /\ Complete(r)
          BY <1>2 DEF CursorOf
        <4>2. \A e \in Id : e <= log[i] => Accounted(e)'
          BY <1>1, <1>16, <3>2, <4>1, FinishExplains
        <4>. QED BY <3>2, <4>2 DEF Explained
      <3>. QED BY <1>16, <3>1, <3>2, FinishEffect
    <2>. QED BY <1>4, <2>1, <2>2, <2>3
  <1>17. CASE Kill(r)
    <2>1. Elsewhere(r) /\ cursor' = cursor /\ KeepsReplay(r)
      BY <1>17, KillEffect DEF Moves, Kill
    <2>2. Covers(r)'
      BY <1>1, <1>2, <2>1, CoversKept DEF CursorOf, KeepsReplay
    <2>3. Explained(run[r].cursor)'
      BY <1>1, <1>2, <2>1, AccountedStays DEF CursorOf, Explained, KeepsReplay
    <2>4. CursorOf(r)'
      BY <1>17, <2>2, <2>3, KillEffect DEF CursorOf, Complete, Moves, Working
    <2>. QED BY <1>4, <1>5, <2>1, <2>4
  <1>. QED BY <1>6, <1>7, <1>8, <1>9, <1>10, <1>11, <1>12, <1>13, <1>14, <1>15, <1>16, <1>17 DEF RunStep

-----------------------------------------------------------------------------
(***************************************************************************)
(* Order: a run that was alone begins and ends apart from the others.      *)
(***************************************************************************)

\* A run only goes on: it leaves "new" by starting, and does not come back to life.
GoesOn(s) ==
    /\ run'[s].pc # "new" <=> run[s].pc # "new"
    /\ Stopped(s) => Stopped(s)'
    /\ run'[s].alone => run[s].alone

LEMMA Going ==
    ASSUME TypeOK, MemberInv, NEW r \in Run, RunStep(r) \/ Kill(r)
    PROVE  /\ run[r].pc # "new" /\ ~Stopped(r) /\ run'[r].alone = run[r].alone
           /\ Elsewhere(r) /\ run'[r].pc # "new"
  <1>1. ASSUME NEW from, NEW to, Moves(r, from, to), to # "new", "new" \notin from,
               "ended" \notin from, "dead" \notin from, run'[r].alone = run[r].alone
        PROVE  /\ run[r].pc # "new" /\ ~Stopped(r) /\ run'[r].alone = run[r].alone
               /\ Elsewhere(r) /\ run'[r].pc # "new"
    BY <1>1 DEF Moves, Stopped
  <1>2. CASE ReadCursor(r)
    BY <1>1, <1>2, CursorEffect
  <1>3. CASE ScanLog(r)
    BY <1>1, <1>3, ScanEffect
  <1>4. CASE ReplayFails(r)
    BY <1>1, <1>4, ReplayFailsEffect DEF KeepsReplay
  <1>5. CASE Extract(r)
    BY <1>1, <1>5, ExtractEffect DEF KeepsReplay
  <1>6. CASE SearchSimilar(r)
    BY <1>1, <1>6, SearchEffect DEF KeepsReplay
  <1>7. CASE Interfere(r)
    BY <1>1, <1>7, InterfereEffect DEF KeepsReplay
  <1>8. CASE InterferenceEnds(r)
    BY <1>1, <1>8, InterferenceEndsEffect DEF KeepsReplay
  <1>9. CASE Persist(r)
    BY <1>1, <1>9, PersistEffect DEF KeepsReplay
  <1>10. CASE PersistenceEnds(r)
    BY <1>1, <1>10, PersistenceEndsEffect DEF KeepsReplay
  <1>11. CASE Finish(r)
    BY <1>1, <1>11, FinishEffect DEF KeepsReplay
  <1>12. CASE Kill(r)
    BY <1>1, <1>12, KillEffect DEF KeepsReplay
  <1>. QED BY <1>2, <1>3, <1>4, <1>5, <1>6, <1>7, <1>8, <1>9, <1>10, <1>11, <1>12 DEF RunStep

LEMMA OrderStep ==
    ASSUME TypeOK, MemberInv, OrderInv, NEW r \in Run, StartRun(r) \/ RunStep(r) \/ Kill(r)
    PROVE  OrderInv'
  <1>1. CASE StartRun(r)
    <2>1. /\ run[r].pc = "new" /\ run'[r].pc = "replay"
          /\ run'[r].alone <=> \A s \in Run : ~Active(s)
          /\ \A s \in Run : s # r => /\ run'[s].pc = run[s].pc
                                     /\ run'[s].alone <=> run[s].alone /\ ~Active(s)
      BY <1>1, StartEffect DEF StartFacts
    <2>2. \A s \in Run : s < r => run[s].pc # "new"
      BY <1>1 DEF StartRun
    <2>3. ASSUME NEW p \in Run, NEW q \in Run, q < p
          PROVE  /\ run'[p].pc # "new" => run'[q].pc # "new"
                 /\ run'[p].pc # "new" /\ run'[p].alone => Stopped(q)'
                 /\ run'[q].pc # "new" /\ ~Stopped(q)' /\ run'[q].alone => run'[p].pc = "new"
      <3>1. CASE p = r
        <4>1. q # r /\ run[q].pc # "new"
          BY <2>2, <2>3, <3>1 DEF Run
        <4>. QED BY <2>1, <3>1, <4>1 DEF Active, Stopped
      <3>2. CASE q = r
        <4>1. p # r /\ run[p].pc = "new"
          BY <2>1, <2>3, <3>2 DEF OrderInv, Run
        <4>. QED BY <2>1, <3>2, <4>1
      <3>3. CASE p # r /\ q # r
        BY <2>1, <2>3, <3>3 DEF OrderInv, Stopped
      <3>. QED BY <3>1, <3>2, <3>3
    <2>. QED BY <2>3 DEF OrderInv
  <1>2. CASE RunStep(r) \/ Kill(r)
    <2>1. /\ run[r].pc # "new" /\ ~Stopped(r) /\ run'[r].alone = run[r].alone
          /\ Elsewhere(r) /\ run'[r].pc # "new"
      BY <1>2, Going
    <2>2. \A s \in Run : GoesOn(s)
      BY <2>1 DEF GoesOn, Elsewhere, Stopped
    <2>3. ASSUME NEW p \in Run, NEW q \in Run, q < p
          PROVE  /\ run'[p].pc # "new" => run'[q].pc # "new"
                 /\ run'[p].pc # "new" /\ run'[p].alone => Stopped(q)'
                 /\ run'[q].pc # "new" /\ ~Stopped(q)' /\ run'[q].alone => run'[p].pc = "new"
      BY <2>2, <2>3 DEF OrderInv, GoesOn
    <2>. QED BY <2>3 DEF OrderInv
  <1>. QED BY <1>1, <1>2

-----------------------------------------------------------------------------
(***************************************************************************)
(* Passing: what a lone run consolidated stays behind every later cursor.  *)
(***************************************************************************)
Passed(r) ==
    run[r].pc = "ended" /\ run[r].alone /\ run[r].events # {} =>
        \E last \in DOMAIN log :
            /\ IsLast(last, run[r].events)
            /\ log[last] <= cursor
            /\ \A s \in Run : r < s /\ CursorRead(s) => log[last] <= run[s].cursor

LEMMA PassedParts == PassedInv <=> \A r \in Run : Passed(r)
  BY DEF PassedInv, Passed

\* Where the cursor and the cursors read stay, whatever is passed stays so.
LEMMA PassedKept ==
    ASSUME TypeOK, Grows, NEW q \in Run, Passed(q), cursor' = cursor,
           run'[q].pc = "ended" => run[q].pc = "ended",
           run'[q].alone => run[q].alone, run'[q].events = run[q].events,
           \A s \in Run : q < s /\ CursorRead(s)' =>
              run'[s].cursor = cursor \/ (CursorRead(s) /\ run'[s].cursor = run[s].cursor)
    PROVE  Passed(q)'
  <1>1. SUFFICES ASSUME run'[q].pc = "ended", run'[q].alone, run'[q].events # {}
                 PROVE  \E last \in DOMAIN log' :
                           /\ IsLast(last, run'[q].events)
                           /\ log'[last] <= cursor'
                           /\ \A s \in Run : q < s /\ CursorRead(s)' => log'[last] <= run'[s].cursor
    BY DEF Passed, IsLast
  <1>2. PICK last \in DOMAIN log :
           /\ IsLast(last, run[q].events)
           /\ log[last] <= cursor
           /\ \A s \in Run : q < s /\ CursorRead(s) => log[last] <= run[s].cursor
    BY <1>1 DEF Passed
  <1>3. last \in DOMAIN log' /\ log'[last] = log[last]
    BY DEF Grows
  <1>. QED BY <1>2, <1>3

\* A finished run moves the cursor past the cursor that it read.
LEMMA FinishPasses ==
    ASSUME TypeOK, MemberInv, OrderInv, NEW r \in Run, Covers(r), \A s \in Run : PhaseInv(s),
           Finish(r), Grows, NEW q \in Run, Passed(q)
    PROVE  Passed(q)'
  <1>1. /\ Elsewhere(r) /\ run[r].pc = "finish" /\ run'[r].pc = "ended"
        /\ run'[r].events = run[r].events /\ run'[r].cursor = run[r].cursor
        /\ run'[r].alone = run[r].alone
    BY FinishEffect DEF Moves, KeepsReplay
  <1>2. \A s \in Run : /\ run'[s].events = run[s].events /\ run'[s].cursor = run[s].cursor
                       /\ run'[s].alone = run[s].alone
                       /\ CursorRead(s)' => CursorRead(s)
    BY <1>1 DEF Elsewhere, CursorRead
  <1>3. SUFFICES ASSUME run'[q].pc = "ended", run'[q].alone, run'[q].events # {}
                 PROVE  \E last \in DOMAIN log' :
                           /\ IsLast(last, run'[q].events)
                           /\ log'[last] <= cursor'
                           /\ \A s \in Run : q < s /\ CursorRead(s)' => log'[last] <= run'[s].cursor
    BY DEF Passed, IsLast
  <1>4. log' = log
    BY DEF Finish, env
  <1>5. CASE q = r
    <2>1. PICK last \in DOMAIN log : IsLast(last, run[r].events) /\ cursor' = log[last]
      BY <1>2, <1>3, <1>5, FinishEffect
    <2>2. ASSUME NEW s \in Run, r < s PROVE ~CursorRead(s)
      <3>1. run[s].pc = "new"
        BY <1>1, <1>2, <1>3, <1>5, <2>2 DEF OrderInv, Stopped
      <3>. QED BY <3>1 DEF CursorRead, PhaseInv
    <2>3. log[last] <= cursor'
      BY <2>1, LogFacts
    <2>. QED BY <1>2, <1>4, <1>5, <2>1, <2>2, <2>3
  <1>6. CASE q # r
    <2>1. run[q].pc = "ended" /\ run[q].alone /\ run[q].events # {}
      BY <1>1, <1>2, <1>3, <1>6 DEF Elsewhere
    <2>2. PICK last \in DOMAIN log :
             /\ IsLast(last, run[q].events)
             /\ log[last] <= cursor
             /\ \A s \in Run : q < s /\ CursorRead(s) => log[last] <= run[s].cursor
      BY <2>1 DEF Passed
    <2>3. log[last] <= cursor'
      <3>1. CASE cursor' = cursor
        BY <2>2, <3>1
      <3>2. ASSUME run[r].events # {}, NEW i \in DOMAIN log, IsLast(i, run[r].events), cursor' = log[i]
            PROVE  log[last] <= cursor'
        <4>1. q < r
          <5>1. ~(r < q)
            BY <1>1, <2>1 DEF OrderInv, Stopped
          <5>. QED BY <1>6, <5>1 DEF Run
        <4>2. log[last] <= run[r].cursor
          BY <2>2, <3>2, <4>1 DEF CursorRead
        <4>3. log[i] > run[r].cursor
          BY <3>2 DEF IsLast, Covers
        <4>4. run[r].cursor \in Nat /\ log[i] \in Nat /\ log[last] \in Nat
          BY Fields, LogFacts DEF TypeOK
        <4>. QED BY <3>2, <4>2, <4>3, <4>4
      <3>. QED BY <3>1, <3>2, FinishEffect
    <2>. QED BY <1>2, <1>4, <2>2, <2>3
  <1>. QED BY <1>5, <1>6

LEMMA PassedStep ==
    ASSUME TypeOK, MemberInv, \A q \in Run : PhaseInv(q), CursorInv, OrderInv, PassedInv,
           NEW r \in Run, StartRun(r) \/ RunStep(r) \/ Kill(r)
    PROVE  PassedInv'
  <1>1. Grows /\ UNCHANGED env /\ TypeOK'
    BY RunKeepsType DEF RunGrows
  <1>2. \A q \in Run : Passed(q)
    BY PassedParts
  <1>3. SUFFICES \A q \in Run : Passed(q)'
    BY DEF PassedInv, Passed
  <1>4. ASSUME Elsewhere(r), cursor' = cursor, run'[r].alone = run[r].alone,
               run'[r].pc # "ended",
               CursorRead(r)' =>
                  run'[r].cursor = cursor \/ (CursorRead(r) /\ run'[r].cursor = run[r].cursor)
        PROVE  \A q \in Run : Passed(q)'
    <2>1. ASSUME NEW q \in Run, q # r PROVE Passed(q)'
      <3>1. run'[q] = run[q]
        BY <1>4, <2>1 DEF Elsewhere
      <3>2. \A s \in Run : q < s /\ CursorRead(s)' =>
               run'[s].cursor = cursor \/ (CursorRead(s) /\ run'[s].cursor = run[s].cursor)
        BY <1>4 DEF Elsewhere, CursorRead
      <3>. QED BY <1>1, <1>2, <1>4, <3>1, <3>2, PassedKept
    <2>2. Passed(r)'
      BY <1>4 DEF Passed
    <2>. QED BY <2>1, <2>2
  <1>5. CASE StartRun(r)
    <2>1. cursor' = cursor
      BY <1>5 DEF StartRun
    <2>2. ASSUME NEW q \in Run PROVE Passed(q)'
      <3>1. CASE q = r
        BY <1>5, <3>1, StartEffect DEF StartFacts, Passed
      <3>2. CASE q # r
        <4>1. /\ run'[q].pc = run[q].pc /\ run'[q].events = run[q].events
              /\ run'[q].alone => run[q].alone
          BY <1>5, <3>2, StartEffect DEF StartFacts
        <4>2. \A s \in Run : CursorRead(s)' => CursorRead(s) /\ run'[s].cursor = run[s].cursor
          BY <1>5, StartEffect DEF StartFacts, CursorRead
        <4>. QED BY <1>1, <1>2, <2>1, <4>1, <4>2, PassedKept
      <3>. QED BY <3>1, <3>2
    <2>. QED BY <2>2
  <1>6. CASE ReadCursor(r)
    BY <1>4, <1>6, CursorEffect DEF Moves, ReadCursor
  <1>7. CASE ScanLog(r)
    <2>1. cursor' = cursor /\ run[r].pc = "scan" /\ run'[r].pc = "extract" /\ Elsewhere(r)
          /\ run'[r].cursor = run[r].cursor /\ run'[r].alone = run[r].alone
      BY <1>7, ScanEffect DEF Moves, ScanLog
    <2>. QED BY <1>4, <2>1 DEF CursorRead
  <1>8. CASE ReplayFails(r)
    <2>1. cursor' = cursor /\ run'[r].pc = "extract" /\ Elsewhere(r) /\ KeepsReplay(r)
      BY <1>8, ReplayFailsEffect DEF Moves, ReplayFails
    <2>. QED BY <1>4, <2>1 DEF CursorRead, KeepsReplay
  <1>9. ASSUME Elsewhere(r), KeepsReplay(r), cursor' = cursor, run'[r].pc \notin {"scan", "ended"}
        PROVE  \A q \in Run : Passed(q)'
    BY <1>4, <1>9 DEF KeepsReplay, CursorRead
  <1>10. CASE Extract(r)
    BY <1>9, <1>10, ExtractEffect DEF Moves, Extract
  <1>11. CASE SearchSimilar(r)
    BY <1>9, <1>11, SearchEffect DEF Moves, SearchSimilar
  <1>12. CASE Interfere(r)
    BY <1>9, <1>12, InterfereEffect DEF Moves, Interfere
  <1>13. CASE InterferenceEnds(r)
    BY <1>9, <1>13, InterferenceEndsEffect DEF Moves, InterferenceEnds
  <1>14. CASE Persist(r)
    BY <1>9, <1>14, PersistEffect DEF Moves, Persist
  <1>15. CASE PersistenceEnds(r)
    BY <1>9, <1>15, PersistenceEndsEffect DEF Moves, PersistenceEnds
  <1>16. CASE Finish(r)
    BY <1>1, <1>2, <1>16, FinishPasses DEF CursorInv
  <1>17. CASE Kill(r)
    BY <1>9, <1>17, KillEffect DEF Moves, Kill
  <1>. QED BY <1>5, <1>6, <1>7, <1>8, <1>10, <1>11, <1>12, <1>13, <1>14, <1>15, <1>16, <1>17 DEF RunStep

-----------------------------------------------------------------------------
(***************************************************************************)
(* Fading: for each fact that fades there is a newer one.                  *)
(***************************************************************************)

\* What makes up for a faded fact: a newer run that broke off or has the fact.
MadeUp(old) ==
    \E r \in Run :
        /\ run[r].born > run[old.run].born
        /\ \/ run[r].pc = "dead" \/ run[r].raised
           \/ \E new \in run[r].made \cup DOMAIN rows :
                 new.kind = "fact" /\ new.run = r /\ ContentOf(new) = ContentOf(old)

LEMMA OwnMemories ==
    ASSUME TypeOK, MemberInv, NEW r \in Run, NEW m \in run[r].made \cup DOMAIN rows
    PROVE  /\ m.run \in Run /\ run[m.run].pc \notin Early
           /\ m.place \in DOMAIN log
  <1>1. CASE m \in run[r].made
    BY <1>1 DEF MemberInv, MadeBy
  <1>2. CASE m \in DOMAIN rows
    BY <1>2, PlaceFacts DEF MemberInv, MadeBy
  <1>. QED BY <1>1, <1>2

LEMMA ContentOfStays ==
    ASSUME TypeOK, MemberInv, Grows, NEW r \in Run, NEW m \in run[r].made \cup DOMAIN rows
    PROVE  ContentOf(m)' = ContentOf(m)
  BY OwnMemories, ContentStays DEF ContentOf

\* What is made up for stays so while memories are stored, or their run breaks off.
LEMMA MadeUpStays ==
    ASSUME TypeOK, MemberInv, \A q \in Run : PhaseInv(q), Grows, Settled,
           \A s \in Run : \/ run[s].made \subseteq run'[s].made \cup DOMAIN rows'
                          \/ run'[s].pc = "dead" \/ run'[s].raised,
           NEW old \in DOMAIN rows, MadeUp(old)
    PROVE  MadeUp(old)'
  <1>1. PICK r \in Run :
           /\ run[r].born > run[old.run].born
           /\ \/ run[r].pc = "dead" \/ run[r].raised
              \/ \E new \in run[r].made \cup DOMAIN rows :
                    new.kind = "fact" /\ new.run = r /\ ContentOf(new) = ContentOf(old)
    BY DEF MadeUp
  <1>2. run[r].pc \notin Early
    <2>1. CASE run[r].pc = "dead" \/ run[r].raised
      BY <2>1 DEF PhaseInv, Early
    <2>2. CASE ~(run[r].pc = "dead" \/ run[r].raised)
      BY <1>1, <2>2, OwnMemories
    <2>. QED BY <2>1, <2>2
  <1>3. run'[r].born = run[r].born /\ run'[old.run].born = run[old.run].born
    BY <1>2, OwnMemories DEF Settled
  <1>4. CASE run'[r].pc = "dead" \/ run'[r].raised
    BY <1>1, <1>3, <1>4 DEF MadeUp
  <1>5. CASE ~(run'[r].pc = "dead" \/ run'[r].raised)
    <2>1. ~(run[r].pc = "dead" \/ run[r].raised)
      BY <1>2, <1>5 DEF Settled
    <2>2. PICK new \in run[r].made \cup DOMAIN rows :
             new.kind = "fact" /\ new.run = r /\ ContentOf(new) = ContentOf(old)
      BY <1>1, <2>1
    <2>3. new \in run'[r].made \cup DOMAIN rows'
      BY <1>5, <2>2 DEF Grows
    <2>4. ContentOf(new)' = ContentOf(old)'
      BY <2>2, ContentOfStays
    <2>. QED BY <1>1, <1>3, <2>2, <2>3, <2>4 DEF MadeUp
  <1>. QED BY <1>4, <1>5

LEMMA NewerParts == NewerFactStays <=> \A old \in DOMAIN rows : rows[old] = "faded" => MadeUp(old)
  BY DEF NewerFactStays, MadeUp

LEMMA MadeStays ==
    ASSUME TypeOK, MemberInv, \A q \in Run : PhaseInv(q),
           NEW r \in Run, StartRun(r) \/ RunStep(r) \/ Kill(r), NEW s \in Run
    PROVE  \/ run[s].made \subseteq run'[s].made \cup DOMAIN rows'
           \/ run'[s].pc = "dead" \/ run'[s].raised
  <1>1. CASE StartRun(r)
    BY <1>1, StartEffect DEF StartFacts, PhaseInv, Early
  <1>2. CASE ReadCursor(r)
    BY <1>2, CursorEffect DEF Moves, Elsewhere, KeepsWork
  <1>3. CASE ScanLog(r)
    BY <1>3, ScanEffect DEF Moves, Elsewhere, KeepsWork
  <1>4. CASE ReplayFails(r)
    BY <1>4, ReplayFailsEffect DEF Moves, Elsewhere, KeepsWork
  <1>5. CASE Extract(r)
    BY <1>5, ExtractEffect DEF Moves, Elsewhere, PhaseInv, Early
  <1>6. CASE SearchSimilar(r)
    BY <1>6, SearchEffect DEF Moves, Elsewhere
  <1>7. CASE Interfere(r)
    BY <1>7, InterfereEffect DEF Moves, Elsewhere
  <1>8. CASE InterferenceEnds(r)
    BY <1>8, InterferenceEndsEffect DEF Moves, Elsewhere
  <1>9. CASE Persist(r)
    BY <1>9, PersistEffect DEF Moves, Elsewhere, Stored
  <1>10. CASE PersistenceEnds(r)
    BY <1>10, PersistenceEndsEffect DEF Moves, Elsewhere
  <1>11. CASE Finish(r)
    BY <1>11, FinishEffect DEF Moves, Elsewhere, KeepsWork
  <1>12. CASE Kill(r)
    BY <1>12, KillEffect DEF Moves, Elsewhere
  <1>. QED BY <1>1, <1>2, <1>3, <1>4, <1>5, <1>6, <1>7, <1>8, <1>9, <1>10, <1>11, <1>12 DEF RunStep

FoundBy(r) ==
    \A f \in run[r].found : f.action = "supersede" => \E new \in run[r].made : Newer(new, f.old)

LEMMA NewerStays ==
    ASSUME TypeOK, MemberInv, Grows, Settled, NEW r \in Run,
           NEW new \in run[r].made, NEW old \in DOMAIN rows, Newer(new, old)
    PROVE  Newer(new, old)'
  <1>1. ContentOf(new)' = ContentOf(new) /\ ContentOf(old)' = ContentOf(old)
    BY ContentOfStays
  <1>2. run'[new.run].born = run[new.run].born /\ run'[old.run].born = run[old.run].born
    BY OwnMemories DEF Settled
  <1>. QED BY <1>1, <1>2 DEF Newer

LEMMA FoundKept ==
    ASSUME TypeOK, MemberInv, Grows, Settled, NEW s \in Run, FoundBy(s),
           run'[s].found \subseteq run[s].found, run[s].made \subseteq run'[s].made
    PROVE  FoundBy(s)'
  <1>1. SUFFICES ASSUME NEW f \in run'[s].found, f.action = "supersede"
                 PROVE  \E new \in run'[s].made : Newer(new, f.old)'
    BY DEF FoundBy, Newer, ContentOf
  <1>2. PICK new \in run[s].made : Newer(new, f.old)
    BY <1>1 DEF FoundBy
  <1>3. f.old \in DOMAIN rows
    BY <1>1 DEF MemberInv
  <1>. QED BY <1>2, <1>3, NewerStays

LEMMA FoundStep ==
    ASSUME TypeOK, MemberInv, \A q \in Run : PhaseInv(q), FoundInv, NEW r \in Run,
           StartRun(r) \/ RunStep(r) \/ Kill(r)
    PROVE  FoundInv'
  <1>1. Grows /\ Settled /\ UNCHANGED env
    BY RunKeepsType, RunsSettle DEF RunGrows
  <1>2. \A s \in Run : FoundBy(s)
    BY DEF FoundInv, FoundBy
  <1>3. SUFFICES \A s \in Run : FoundBy(s)'
    BY DEF FoundInv, FoundBy
  <1>4. ASSUME NEW s \in Run, run'[s].pc # "interfere" PROVE FoundBy(s)'
    <2>1. PhaseInv(s)'
      BY PhaseStep
    <2>. QED BY <1>4, <2>1 DEF PhaseInv, FoundBy
  <1>5. ASSUME NEW s \in Run, run'[s].found = run[s].found, run'[s].made = run[s].made PROVE FoundBy(s)'
    BY <1>1, <1>2, <1>5, FoundKept
  <1>6. ASSUME Elsewhere(r), FoundBy(r)' PROVE \A s \in Run : FoundBy(s)'
    BY <1>5, <1>6 DEF Elsewhere
  <1>7. CASE StartRun(r)
    <2>1. run'[r].pc = "replay"
          /\ \A s \in Run : s # r => run'[s].found = run[s].found /\ run'[s].made = run[s].made
      BY <1>7, StartEffect DEF StartFacts
    <2>. QED BY <1>4, <1>5, <2>1
  <1>8. CASE Extract(r)
    <2>1. Elsewhere(r) /\ run'[r].found = {}
      BY <1>8, ExtractEffect DEF Moves, PhaseInv
    <2>. QED BY <1>6, <2>1 DEF FoundBy
  <1>9. CASE SearchSimilar(r)
    <2>1. Elsewhere(r) /\ run'[r].made = run[r].made
      BY <1>9, SearchEffect DEF Moves
    <2>2. PICK new \in run[r].todo :
             \A f \in run'[r].found : /\ f.old \in DOMAIN rows
                                      /\ f.action = "supersede" => Supersedes(new, f.old)
      BY <1>9, SearchEffect
    <2>3. new \in run[r].made /\ new.kind = "fact"
      BY DEF MemberInv
    <2>4. ASSUME NEW f \in run'[r].found, f.action = "supersede" PROVE Newer(new, f.old)'
      <3>1. f.old \in DOMAIN rows /\ Newer(new, f.old)
        BY <2>2, <2>3, <2>4 DEF Supersedes, Newer
      <3>. QED BY <1>1, <2>3, <3>1, NewerStays
    <2>5. FoundBy(r)'
      BY <2>1, <2>3, <2>4 DEF FoundBy, Newer, ContentOf
    <2>. QED BY <1>6, <2>1, <2>5
  <1>10. CASE Interfere(r)
    <2>1. Elsewhere(r) /\ run'[r].made = run[r].made /\ run'[r].found \subseteq run[r].found
      BY <1>10, InterfereEffect DEF Moves
    <2>. QED BY <1>1, <1>2, <1>6, <2>1, FoundKept
  <1>11. ASSUME NEW from, NEW to, Moves(r, from, to), to # "interfere"
         PROVE  \A s \in Run : FoundBy(s)'
    BY <1>4, <1>6, <1>11 DEF Moves
  <1>12. CASE ReadCursor(r)
    BY <1>11, <1>12, CursorEffect
  <1>13. CASE ScanLog(r)
    BY <1>11, <1>13, ScanEffect
  <1>14. CASE ReplayFails(r)
    BY <1>11, <1>14, ReplayFailsEffect
  <1>15. CASE InterferenceEnds(r)
    BY <1>11, <1>15, InterferenceEndsEffect
  <1>16. CASE Persist(r)
    BY <1>11, <1>16, PersistEffect
  <1>17. CASE PersistenceEnds(r)
    BY <1>11, <1>17, PersistenceEndsEffect
  <1>18. CASE Finish(r)
    BY <1>11, <1>18, FinishEffect
  <1>19. CASE Kill(r)
    BY <1>11, <1>19, KillEffect
  <1>. QED BY <1>7, <1>8, <1>9, <1>10, <1>12, <1>13, <1>14, <1>15, <1>16, <1>17, <1>18, <1>19 DEF RunStep

LEMMA NewerStep ==
    ASSUME TypeOK, MemberInv, \A q \in Run : PhaseInv(q), FoundInv, NewerFactStays, NEW r \in Run,
           StartRun(r) \/ RunStep(r) \/ Kill(r)
    PROVE  NewerFactStays'
  <1>1. Grows /\ Settled /\ UNCHANGED env
    BY RunKeepsType, RunsSettle DEF RunGrows
  <1>2. \A s \in Run : \/ run[s].made \subseteq run'[s].made \cup DOMAIN rows'
                       \/ run'[s].pc = "dead" \/ run'[s].raised
    BY MadeStays
  <1>3. SUFFICES ASSUME NEW old \in DOMAIN rows', rows'[old] = "faded" PROVE MadeUp(old)'
    BY DEF NewerFactStays, MadeUp, ContentOf
  <1>4. CASE old \in DOMAIN rows /\ rows[old] = "faded"
    <2>1. MadeUp(old)
      BY <1>4, NewerParts
    <2>. QED BY <1>1, <1>2, <1>4, <2>1, MadeUpStays
  <1>5. CASE Interfere(r)
    <2>1. PICK f \in run[r].found :
             rows' = [rows EXCEPT ![f.old] = IF f.action = "supersede" THEN "faded" ELSE "active"]
      BY <1>5, InterfereEffect
    <2>2. CASE old = f.old /\ f.action = "supersede"
      <3>1. PICK new \in run[r].made : Newer(new, old)
        BY <2>2 DEF FoundInv
      <3>2. old \in DOMAIN rows /\ new.run = r
        BY <2>2 DEF MemberInv, MadeBy
      <3>3. MadeUp(old)
        BY <3>1, <3>2 DEF MadeUp, Newer
      <3>. QED BY <1>1, <1>2, <3>2, <3>3, MadeUpStays
    <2>3. CASE ~(old = f.old /\ f.action = "supersede")
      BY <1>3, <1>4, <2>1, <2>3
    <2>. QED BY <2>2, <2>3
  <1>6. CASE Persist(r)
    BY <1>3, <1>4, <1>6, PersistEffect DEF Stored
  <1>7. CASE UNCHANGED rows
    BY <1>3, <1>4, <1>7
  <1>8. CASE StartRun(r) \/ Kill(r)
    BY <1>7, <1>8 DEF StartRun, Kill
  <1>9. CASE \/ ReadCursor(r) \/ ScanLog(r) \/ ReplayFails(r) \/ Extract(r) \/ SearchSimilar(r)
             \/ InterferenceEnds(r) \/ PersistenceEnds(r) \/ Finish(r)
    BY <1>7, <1>9 DEF ReadCursor, ScanLog, ReplayFails, Extract, SearchSimilar,
                      InterferenceEnds, PersistenceEnds, Finish
  <1>. QED BY <1>5, <1>6, <1>8, <1>9 DEF RunStep

-----------------------------------------------------------------------------
(***************************************************************************)
(* Captures and the clock, and what starts.                                *)
(***************************************************************************)
LEMMA EnvStep ==
    ASSUME IInv, CreateEvent \/ AppendEvent \/ ClockTicks
    PROVE  IInv'
  <1>1. TypeOK' /\ Grows /\ UNCHANGED <<cursor, rows, run, failed, overlooked>>
    BY EnvGrows DEF IInv
  <1>2. TypeOK /\ MemberInv /\ (\A q \in Run : PhaseInv(q)) /\ CursorInv /\ OrderInv /\ PassedInv
        /\ FoundInv /\ NewerFactStays
    BY DEF IInv
  <1>3. rows' = rows /\ run' = run /\ cursor' = cursor
    BY <1>1
  <1>4. Settled
    BY <1>3 DEF Settled
  <1>5. (\A q \in Run : PhaseInv(q))' /\ OrderInv'
    BY <1>2, <1>3 DEF PhaseInv, OrderInv, Stopped
  <1>6. MemberInv'
    BY <1>1, <1>2, <1>3 DEF MemberInv, MadeBy, Grows
  <1>7. CursorInv'
    <2>1. Explained(cursor)' 
      BY <1>1, <1>2, <1>3, AccountedStays DEF CursorInv, Explained
    <2>2. \A s \in Run : CursorOf(s)'
      BY <1>1, <1>2, <1>3, CursorOfKept, CursorParts
    <2>. QED BY <2>1, <2>2 DEF CursorInv, CursorOf
  <1>8. PassedInv'
    <2>1. \A q \in Run : Passed(q)'
      BY <1>1, <1>2, <1>3, PassedKept, PassedParts DEF CursorRead
    <2>. QED BY <2>1 DEF PassedInv, Passed
  <1>9. FoundInv'
    <2>1. \A s \in Run : FoundBy(s)'
      BY <1>1, <1>2, <1>3, <1>4, FoundKept DEF FoundInv, FoundBy
    <2>. QED BY <2>1 DEF FoundInv, FoundBy
  <1>10. NewerFactStays'
    <2>1. ASSUME NEW old \in DOMAIN rows', rows'[old] = "faded" PROVE MadeUp(old)'
      BY <1>1, <1>2, <1>3, <1>4, <2>1, MadeUpStays, NewerParts
    <2>. QED BY <2>1 DEF NewerFactStays, MadeUp, ContentOf
  <1>. QED BY <1>1, <1>5, <1>6, <1>7, <1>8, <1>9, <1>10 DEF IInv

LEMMA InitHolds ==
    ASSUME Init
    PROVE  IInv
  <1>1. Id \subseteq Nat \ {0} /\ Created = {} /\ DOMAIN rows = {} /\ DOMAIN log = {}
    BY Ids DEF Init, Created
  <1>2. TypeOK
    <2>1. NewRun \in Context
      BY DEF NewRun, NoId, Context, Phase
    <2>2. log \in Seq(Created) /\ says \in [Created -> Content] /\ rows \in [{} -> {"active", "faded"}]
      BY <1>1 DEF Init
    <2>. QED BY <1>1, <2>1, <2>2 DEF Init, TypeOK, NoId
  <1>3. \A r \in Run : /\ run[r].pc = "new" /\ run[r].cursor = 0 /\ run[r].events = {} /\ run[r].visible = {}
                       /\ run[r].made = {} /\ run[r].todo = {} /\ run[r].found = {} /\ run[r].raised = FALSE
    BY DEF Init, NewRun, NoId
  <1>4. cursor = 0
    BY DEF Init, NoId
  <1>5. (\A r \in Run : PhaseInv(r)) /\ MemberInv
    BY <1>1, <1>3 DEF PhaseInv, MemberInv
  <1>6. CursorInv
    <2>1. Explained(0)
      BY <1>1 DEF Explained
    <2>. QED BY <1>3, <1>4, <2>1 DEF CursorInv, Covers, Complete, Working
  <1>7. OrderInv /\ PassedInv /\ FoundInv /\ NewerFactStays
    BY <1>1, <1>3 DEF OrderInv, PassedInv, FoundInv, NewerFactStays
  <1>. QED BY <1>2, <1>5, <1>6, <1>7 DEF IInv

LEMMA StutterHolds ==
    ASSUME IInv, UNCHANGED vars
    PROVE  IInv'
  <1>1. /\ clock' = clock /\ says' = says /\ log' = log /\ cursor' = cursor /\ rows' = rows
        /\ run' = run /\ extractions' = extractions /\ faults' = faults /\ failed' = failed
        /\ overlooked' = overlooked
    BY DEF vars, env
  <1>. QED BY <1>1 DEF IInv, TypeOK, Created, PhaseInv, MemberInv, MadeBy, CursorInv, Explained,
              Accounted, Remembered, ContentOf, Covers, Complete, OrderInv, Stopped, PassedInv,
              CursorRead, IsLast, FoundInv, Newer, NewerFactStays

LEMMA Inductive ==
    ASSUME IInv, [Next]_vars
    PROVE  IInv'
  <1>1. CASE CreateEvent \/ AppendEvent \/ ClockTicks
    BY <1>1, EnvStep
  <1>2. ASSUME NEW r \in Run, StartRun(r) \/ RunStep(r) \/ Kill(r) PROVE IInv'
    BY <1>2, RunKeepsType, PhaseStep, MemberStep, CursorStep, OrderStep, PassedStep, FoundStep,
       NewerStep DEF IInv
  <1>3. CASE UNCHANGED vars
    BY <1>3, StutterHolds
  <1>. QED BY <1>1, <1>2, <1>3 DEF Next

-----------------------------------------------------------------------------
LEMMA InvariantHolds == Spec => []IInv
  BY InitHolds, Inductive, PTL DEF Spec

LEMMA LossFromInvariant ==
    ASSUME IInv
    PROVE  LossExplained
  <1>1. \A e \in Created : e \in Id
    BY DEF IInv, TypeOK
  <1>. QED BY <1>1 DEF IInv, CursorInv, Explained, Accounted, LossExplained

\* The cursor passes no captured event whose content is not stored, except those
\* of a run that raised and those that the run could not see: however many
\* captures, runs and kills interleave (pipeline.py:1602, the cursor of "Q12").
THEOREM NothingLostUnexplained == Spec => []LossExplained
  BY InvariantHolds, LossFromInvariant, PTL

LEMMA OneEpisodeFromInvariant ==
    ASSUME IInv
    PROVE  OneEpisode
  <1>1. SUFFICES ASSUME NEW m \in DOMAIN rows, NEW n \in DOMAIN rows, m.kind = "episode",
                        n.kind = "episode", m.place = n.place, m # n
                 PROVE  \E r \in {m.run, n.run} :
                           \/ run[r].pc # "ended" \/ ~run[r].alone
                           \/ \A i \in DOMAIN log : IsLast(i, run[r].events) => log[m.place] > log[i]
    BY DEF OneEpisode
  <1>2. TypeOK /\ MemberInv /\ CursorInv /\ PassedInv
    BY DEF IInv
  <1>3. m.run \in Run /\ n.run \in Run /\ m.run # n.run
    BY <1>1, <1>2, PlaceFacts DEF TypeOK, Memory
  <1>4. m.place \in run[m.run].events /\ m.place \in run[n.run].events
    BY <1>1, <1>2 DEF MemberInv, MadeBy
  <1>5. ASSUME NEW r \in Run, NEW s \in Run, r < s, NEW i \in run[r].events, i \in run[s].events,
               run[r].pc = "ended", run[r].alone, NEW j \in DOMAIN log, IsLast(j, run[r].events)
        PROVE  log[i] > log[j]
    <2>1. PICK last \in DOMAIN log :
             /\ IsLast(last, run[r].events)
             /\ \A t \in Run : r < t /\ CursorRead(t) => log[last] <= run[t].cursor
      BY <1>2, <1>5 DEF PassedInv
    <2>2. last = j
      BY <1>2, <1>5, <2>1, LogFacts DEF IsLast
    <2>3. log[j] <= run[s].cursor
      BY <1>5, <2>1, <2>2 DEF CursorRead
    <2>4. log[i] > run[s].cursor
      BY <1>2, <1>5 DEF CursorInv, Covers
    <2>5. i \in DOMAIN log
      BY <1>2, <1>5 DEF MemberInv
    <2>6. log[i] \in Nat /\ log[j] \in Nat /\ run[s].cursor \in Nat
      BY <1>2, <2>5, LogFacts, Fields DEF TypeOK
    <2>. QED BY <2>3, <2>4, <2>6
  <1>6. CASE m.run < n.run
    BY <1>3, <1>4, <1>5, <1>6
  <1>7. CASE n.run < m.run
    BY <1>3, <1>4, <1>5, <1>7
  <1>. QED BY <1>3, <1>6, <1>7 DEF Run

\* No event becomes two episodes unless the runs overlapped, one has not ended, or
\* the event's id is larger than that of its run's last event (pipeline.py:103).
THEOREM EpisodesAreSingle == Spec => []OneEpisode
  BY InvariantHolds, OneEpisodeFromInvariant, PTL

\* A fact fades only for a newer one of its content that is stored, or that its
\* run has yet to store, unless that run died or raised (pipeline.py:478-561).
THEOREM FadedFactsAreReplaced == Spec => []NewerFactStays
  <1>1. IInv => NewerFactStays
    BY DEF IInv
  <1>. QED BY <1>1, InvariantHolds, PTL
=============================================================================
