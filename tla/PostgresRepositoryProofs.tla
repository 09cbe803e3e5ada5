---------------------- MODULE PostgresRepositoryProofs ----------------------
(***************************************************************************)
(* Theorems about PostgresRepository, for any number of calls, ids, urls   *)
(* and users and any batches.  The invariant behind them: the rows that a  *)
(* transaction holds are those of the entries it has been through, and no  *)
(* two rows, committed or held by whatever transaction, share a url or id. *)
(***************************************************************************)
EXTENDS PostgresRepository, WellFoundedInduction, FiniteSetTheorems, TLAPS

ItemApart(g, h) == g.id # h.id /\ g.url # h.url

Apart(S) == \A g, h \in S : g.id = h.id \/ g.url = h.url => g = h

\* The entries that a call has been through
Inserted(c) == {entries[c][k] : k \in 1..(next[c] - 1)}

\* Where a call stands
Stage(c) ==
  /\ phase[c] = "idle" => /\ entries[c] = <<>> /\ next[c] = 1 /\ held[c] = {}
                          /\ outcome[c] = "none" /\ ~single[c]
  /\ phase[c] # "idle" => entries[c] \in Batches
  /\ single[c] => Len(entries[c]) = 1
  /\ phase[c] = "exec" => /\ next[c] \in 1..Len(entries[c])
                          /\ held[c] = Inserted(c) /\ outcome[c] = "none"
  /\ phase[c] = "commit" => held[c] = Range(entries[c]) /\ outcome[c] = "none"
  /\ phase[c] = "done" => held[c] = {} /\ outcome[c] # "none"

\* The unique indexes
Separate ==
  /\ Apart(rows)
  /\ \A c \in Calls : Apart(held[c])
  /\ \A c \in Calls : \A h \in held[c], r \in rows : ItemApart(h, r)
  /\ \A c, d \in Calls : c # d => \A g \in held[c], h \in held[d] : ItemApart(g, h)

\* What a call has returned
Result(c) ==
  /\ outcome[c] \in {"nil", "lost"} => Range(entries[c]) \subseteq rows
  /\ single[c] /\ outcome[c] = "ErrURLExists" => \E r \in rows : r.url = entries[c][1].url

IndInvariant ==
  /\ TypeOK
  /\ \A c \in Calls : Stage(c)
  /\ Separate
  /\ \A c \in Calls : Result(c)

----------------------------------------------------------------------------
(* Lemmas                                                                  *)

LEMMA BatchFacts ==
  ASSUME NEW es \in Batches
  PROVE  /\ es \in Seq(Entry) /\ Len(es) \in Nat \ {0}
         /\ Range(es) = {es[k] : k \in 1..Len(es)}
         /\ Range(es) \in SUBSET Entry /\ Range(es) # {}
<1>1. es \in Seq(Entry) /\ es # <<>>
  BY BatchesAssumption
<1>2. Len(es) \in Nat \ {0}
  BY <1>1
<1>3. Range(es) = {es[k] : k \in 1..Len(es)}
  BY <1>2 DEF Range
<1>4. \A k \in 1..Len(es) : es[k] \in Entry
  BY <1>1
<1>5. es[1] \in Range(es)
  BY <1>2, <1>3
<1>6. QED BY <1>1, <1>2, <1>3, <1>4, <1>5

\* The entry that a call is at is one of its batch.
LEMMA RowFacts ==
  ASSUME IndInvariant, NEW c \in Calls, phase[c] = "exec"
  PROVE  Row(c) \in Entry /\ Row(c) \in Range(entries[c])
<1>1. entries[c] \in Batches /\ next[c] \in 1..Len(entries[c])
  BY DEF IndInvariant, Stage
<1>2. QED BY <1>1, BatchFacts DEF Row

\* What an INSERT is allowed to add shares nothing with any row.
LEMMA FreeFacts ==
  ASSUME IndInvariant, NEW c \in Calls, phase[c] = "exec",
         ~URLTaken(c), ~IDTaken(c), Blockers(c) = {}
  PROVE  /\ \A r \in rows : ItemApart(Row(c), r)
         /\ \A d \in Calls : \A h \in held[d] : ItemApart(h, Row(c))
<1>1. \A r \in rows \cup held[c] : r.url # Row(c).url /\ r.id # Row(c).id
  BY DEF URLTaken, IDTaken, Visible
<1>2. URLBlockers(c) = {} /\ IDBlockers(c) = {}
  BY DEF Blockers
<1>3. \A d \in Calls \ {c} : \A h \in held[d] : h.url # Row(c).url /\ h.id # Row(c).id
  BY <1>2 DEF URLBlockers, IDBlockers
<1>4. QED BY <1>1, <1>3 DEF ItemApart

\* A call ends, and the rows N, which share nothing with any other, are committed.
LEMMA EndsKeeps ==
  ASSUME IndInvariant, NEW c \in Calls, NEW o \in Outcomes \ {"none"},
         phase[c] \in {"exec", "commit"}, Ends(c, o),
         NEW N \in SUBSET Entry, rows' = rows \cup N, Apart(N),
         \A n \in N, r \in rows : ItemApart(n, r),
         \A d \in Calls \ {c} : \A h \in held[d], n \in N : ItemApart(h, n),
         o \in {"nil", "lost"} => Range(entries[c]) \subseteq rows',
         single[c] /\ o = "ErrURLExists" => \E r \in rows : r.url = entries[c][1].url
  PROVE  IndInvariant'
<1>1. /\ phase' = [phase EXCEPT ![c] = "done"] /\ outcome' = [outcome EXCEPT ![c] = o]
      /\ held' = [held EXCEPT ![c] = {}]
      /\ single' = single /\ entries' = entries /\ next' = next /\ deleted' = deleted
  BY DEF Ends, Release, callVars
<1>2. TypeOK
  BY DEF IndInvariant
<1>3. /\ phase'[c] = "done" /\ outcome'[c] = o /\ held'[c] = {}
      /\ \A d \in Calls \ {c} : /\ phase'[d] = phase[d] /\ outcome'[d] = outcome[d]
                                /\ held'[d] = held[d]
  BY <1>1, <1>2 DEF TypeOK
<1>4. TypeOK'
  BY <1>1, <1>2, <1>3 DEF TypeOK
<1>5. \A d \in Calls : Stage(d)'
  <2>1. Stage(c)'
    BY <1>1, <1>3 DEF IndInvariant, Stage
  <2>2. ASSUME NEW d \in Calls \ {c} PROVE Stage(d)'
    BY <1>1, <1>3 DEF IndInvariant, Stage, Inserted
  <2>3. QED BY <2>1, <2>2
<1>6. Separate'
  <2>1. Apart(rows')
    BY DEF IndInvariant, Separate, Apart, ItemApart
  <2>2. \A d \in Calls : Apart(held'[d])
    BY <1>3 DEF IndInvariant, Separate, Apart
  <2>3. \A d \in Calls : \A h \in held'[d], r \in rows' : ItemApart(h, r)
    BY <1>3 DEF IndInvariant, Separate
  <2>4. \A d, f \in Calls : d # f => \A g \in held'[d], h \in held'[f] : ItemApart(g, h)
    BY <1>3 DEF IndInvariant, Separate
  <2>5. QED BY <2>1, <2>2, <2>3, <2>4 DEF Separate, Apart, ItemApart
<1>7. \A d \in Calls : Result(d)'
  BY <1>1, <1>3 DEF IndInvariant, Result
<1>8. QED BY <1>4, <1>5, <1>6, <1>7 DEF IndInvariant

\* A call begins.
LEMMA CallKeeps ==
  ASSUME IndInvariant, NEW c \in Calls, NEW es \in Batches, NEW one \in BOOLEAN,
         Call(c, es, one), one => Len(es) = 1
  PROVE  IndInvariant'
<1>1. /\ phase' = [phase EXCEPT ![c] = "exec"]
      /\ entries' = [entries EXCEPT ![c] = es] /\ single' = [single EXCEPT ![c] = one]
      /\ next' = next /\ held' = held /\ outcome' = outcome
      /\ rows' = rows /\ deleted' = deleted
  BY DEF Call
<1>2. TypeOK /\ es \in Seq(Entry) /\ Len(es) \in Nat \ {0}
  BY BatchFacts DEF IndInvariant
<1>3. /\ phase'[c] = "exec" /\ entries'[c] = es /\ single'[c] = one
      /\ \A d \in Calls \ {c} : /\ phase'[d] = phase[d] /\ entries'[d] = entries[d]
                                /\ single'[d] = single[d]
  BY <1>1, <1>2 DEF TypeOK
<1>4. next[c] = 1 /\ held[c] = {} /\ outcome[c] = "none"
  BY DEF IndInvariant, Stage, Call
<1>5. TypeOK'
  <2>1. \A d \in Calls : phase'[d] = "exec" => next'[d] \in 1..Len(entries'[d])
    <3>1. next'[c] \in 1..Len(entries'[c])
      BY <1>1, <1>2, <1>3, <1>4
    <3>2. \A d \in Calls : phase[d] = "exec" => next[d] \in 1..Len(entries[d])
      BY <1>2 DEF TypeOK
    <3>3. QED BY <1>1, <1>3, <3>1, <3>2
  <2>2. QED BY <1>1, <1>2, <1>3, <2>1 DEF TypeOK
<1>6. \A d \in Calls : Stage(d)'
  <2>1. Stage(c)'
    <3>1. Inserted(c)' = {}
      BY <1>1, <1>4 DEF Inserted
    <3>2. QED BY <1>1, <1>2, <1>3, <1>4, <3>1 DEF Stage
  <2>2. ASSUME NEW d \in Calls \ {c} PROVE Stage(d)'
    BY <1>1, <1>3 DEF IndInvariant, Stage, Inserted
  <2>3. QED BY <2>1, <2>2
<1>7. Separate'
  BY <1>1 DEF IndInvariant, Separate, Apart, ItemApart
<1>8. \A d \in Calls : Result(d)'
  BY <1>1, <1>3, <1>4 DEF IndInvariant, Result
<1>9. QED BY <1>5, <1>6, <1>7, <1>8 DEF IndInvariant

\* A transaction inserts a row.
LEMMA InsertHeldKeeps ==
  ASSUME IndInvariant, NEW c \in Calls, InsertHeld(c)
  PROVE  IndInvariant'
<1>1. /\ phase[c] = "exec" /\ ~single[c]
      /\ held' = [held EXCEPT ![c] = held[c] \cup {Row(c)}]
      /\ rows' = rows /\ entries' = entries /\ single' = single
      /\ outcome' = outcome /\ deleted' = deleted
      /\ \/ /\ next[c] = Len(entries[c])
            /\ phase' = [phase EXCEPT ![c] = "commit"] /\ next' = next
         \/ /\ next[c] # Len(entries[c])
            /\ next' = [next EXCEPT ![c] = next[c] + 1] /\ phase' = phase
  BY DEF InsertHeld, HoldRow, callVars
<1>2. TypeOK /\ Stage(c)
  BY DEF IndInvariant
<1>3. /\ held'[c] = held[c] \cup {Row(c)}
      /\ \A d \in Calls \ {c} : /\ held'[d] = held[d] /\ phase'[d] = phase[d]
                                /\ next'[d] = next[d]
  BY <1>1, <1>2 DEF TypeOK
<1>4. /\ entries[c] \in Batches /\ next[c] \in 1..Len(entries[c])
      /\ held[c] = Inserted(c) /\ outcome[c] = "none"
  BY <1>1, <1>2 DEF Stage
<1>5. Len(entries[c]) \in Nat \ {0} /\ Range(entries[c]) = {entries[c][k] : k \in 1..Len(entries[c])}
  BY <1>4, BatchFacts
<1>6. Row(c) \in Entry
  BY <1>1, RowFacts
<1>7. held[c] \cup {Row(c)} = {entries[c][k] : k \in 1..next[c]}
  BY <1>4, <1>5 DEF Inserted, Row
<1>8. \/ phase'[c] = "commit" /\ next'[c] = next[c] /\ held'[c] = Range(entries[c])
      \/ /\ phase'[c] = "exec" /\ next'[c] = next[c] + 1 /\ next'[c] \in 1..Len(entries[c])
         /\ held'[c] = Inserted(c)'
  <2>1. CASE next[c] = Len(entries[c])
    BY <1>1, <1>2, <1>3, <1>5, <1>7, <2>1 DEF TypeOK
  <2>2. CASE next[c] # Len(entries[c])
    <3>1. phase'[c] = "exec" /\ next'[c] = next[c] + 1
      BY <1>1, <1>2, <2>2 DEF TypeOK
    <3>2. next'[c] - 1 = next[c] /\ next'[c] \in 1..Len(entries[c])
      BY <1>4, <1>5, <2>2, <3>1
    <3>3. held'[c] = Inserted(c)'
      BY <1>1, <1>3, <1>7, <3>2 DEF Inserted
    <3>4. QED BY <3>1, <3>2, <3>3
  <2>3. QED BY <2>1, <2>2
<1>9. TypeOK'
  <2>1. held' \in [Calls -> SUBSET Entry] /\ next' \in [Calls -> Nat]
    <3>1. held[c] \cup {Row(c)} \in SUBSET Entry
      BY <1>2, <1>6 DEF TypeOK
    <3>2. next[c] + 1 \in Nat
      BY <1>2 DEF TypeOK
    <3>3. held' \in [Calls -> SUBSET Entry]
      BY <1>1, <1>2, <3>1 DEF TypeOK
    <3>4. CASE next' = next
      BY <1>2, <3>3, <3>4 DEF TypeOK
    <3>5. CASE next' = [next EXCEPT ![c] = next[c] + 1]
      BY <1>2, <3>2, <3>3, <3>5 DEF TypeOK
    <3>6. QED BY <1>1, <3>4, <3>5
  <2>2. phase' \in [Calls -> {"idle", "exec", "commit", "done"}]
    BY <1>1, <1>2 DEF TypeOK
  <2>3. \A d \in Calls : /\ phase'[d] = "exec" => next'[d] \in 1..Len(entries'[d])
                         /\ phase'[d] \in {"idle", "done"} => held'[d] = {}
    <3>1. phase'[c] = "commit" \/ (phase'[c] = "exec" /\ next'[c] \in 1..Len(entries'[c]))
      BY <1>1, <1>8
    <3>2. \A d \in Calls : /\ phase[d] = "exec" => next[d] \in 1..Len(entries[d])
                           /\ phase[d] \in {"idle", "done"} => held[d] = {}
      BY <1>2 DEF TypeOK
    <3>3. QED BY <1>1, <1>3, <3>1, <3>2
  <2>4. QED BY <1>1, <1>2, <2>1, <2>2, <2>3 DEF TypeOK
<1>10. \A d \in Calls : Stage(d)'
  <2>1. Stage(c)'
    BY <1>1, <1>4, <1>8 DEF Stage
  <2>2. ASSUME NEW d \in Calls \ {c} PROVE Stage(d)'
    BY <1>1, <1>3 DEF IndInvariant, Stage, Inserted
  <2>3. QED BY <2>1, <2>2
<1>11. Separate'
  <2>1. /\ \A r \in rows : ItemApart(Row(c), r)
        /\ \A d \in Calls : \A h \in held[d] : ItemApart(h, Row(c))
    BY <1>1, FreeFacts DEF InsertHeld
  <2>2. \A d \in Calls : Apart(held'[d])
    BY <1>3, <2>1 DEF IndInvariant, Separate, Apart, ItemApart
  <2>3. \A d \in Calls : \A h \in held'[d], r \in rows : ItemApart(h, r)
    BY <1>3, <2>1 DEF IndInvariant, Separate
  <2>4. \A d, f \in Calls : d # f => \A g \in held'[d], h \in held'[f] : ItemApart(g, h)
    BY <1>3, <2>1 DEF IndInvariant, Separate, ItemApart
  <2>5. Apart(rows)
    BY DEF IndInvariant, Separate
  <2>6. QED BY <1>1, <2>2, <2>3, <2>4, <2>5 DEF Separate, Apart, ItemApart
<1>12. \A d \in Calls : Result(d)'
  BY <1>1 DEF IndInvariant, Result
<1>13. QED BY <1>9, <1>10, <1>11, <1>12 DEF IndInvariant

\* Save's row is committed with its statement.
LEMMA InsertSingleKeeps ==
  ASSUME IndInvariant, NEW c \in Calls, InsertSingle(c)
  PROVE  IndInvariant' /\ Range(entries[c]) = {Row(c)}
<1>1. phase[c] = "exec" /\ single[c] /\ rows' = rows \cup {Row(c)}
  BY DEF InsertSingle
<1>2. PICK o \in {"nil", "lost"} : Ends(c, o)
  BY DEF InsertSingle
<1>3. Row(c) \in Entry
  BY <1>1, RowFacts
<1>4. /\ \A r \in rows : ItemApart(Row(c), r)
      /\ \A d \in Calls : \A h \in held[d] : ItemApart(h, Row(c))
  BY <1>1, FreeFacts DEF InsertSingle
<1>5. Range(entries[c]) = {Row(c)}
  <2>1. entries[c] \in Batches /\ Len(entries[c]) = 1 /\ next[c] \in 1..Len(entries[c])
    BY <1>1 DEF IndInvariant, Stage
  <2>2. QED BY <2>1, BatchFacts DEF Row
<1>6. Apart({Row(c)})
  BY DEF Apart
<1>7. o \in Outcomes \ {"none"} /\ o # "ErrURLExists"
  BY <1>2 DEF Outcomes
<1>8. IndInvariant'
  <2> DEFINE N == {Row(c)}
  <2>1. /\ N \in SUBSET Entry /\ rows' = rows \cup N /\ Apart(N)
        /\ \A n \in N, r \in rows : ItemApart(n, r)
        /\ \A d \in Calls \ {c} : \A h \in held[d], n \in N : ItemApart(h, n)
        /\ Range(entries[c]) \subseteq rows'
    BY <1>1, <1>3, <1>4, <1>5, <1>6
  <2> HIDE DEF N
  <2>2. QED BY <1>1, <1>2, <1>7, <2>1, EndsKeeps
<1>9. QED BY <1>5, <1>8

\* A transaction commits.
LEMMA CommitKeeps ==
  ASSUME IndInvariant, NEW c \in Calls, Commit(c)
  PROVE  IndInvariant' /\ held[c] = Range(entries[c])
<1>1. phase[c] = "commit" /\ rows' = rows \cup held[c]
  BY DEF Commit
<1>2. PICK o \in {"nil", "lost"} : Ends(c, o)
  BY DEF Commit
<1>3. held[c] = Range(entries[c])
  BY <1>1 DEF IndInvariant, Stage
<1>4. /\ held[c] \in SUBSET Entry /\ Apart(held[c])
      /\ \A n \in held[c], r \in rows : ItemApart(n, r)
      /\ \A d \in Calls \ {c} : \A h \in held[d], n \in held[c] : ItemApart(h, n)
  BY DEF IndInvariant, TypeOK, Separate
<1>5. o \in Outcomes \ {"none"} /\ o # "ErrURLExists"
  BY <1>2 DEF Outcomes
<1>6. IndInvariant'
  BY <1>1, <1>2, <1>3, <1>4, <1>5, EndsKeeps
<1>7. QED BY <1>3, <1>6

\* A call ends without any effect.
LEMMA RefusalKeeps ==
  ASSUME IndInvariant, NEW c \in Calls, rows' = rows,
         NEW o \in {"ErrURLExists", "ErrConflict", "error"}, Ends(c, o),
         phase[c] \in {"exec", "commit"},
         o = "ErrURLExists" => phase[c] = "exec" /\ URLTaken(c)
  PROVE  IndInvariant'
<1>1. single[c] /\ o = "ErrURLExists" => \E r \in rows : r.url = entries[c][1].url
  <2>1. SUFFICES ASSUME single[c], o = "ErrURLExists"
                 PROVE  \E r \in rows : r.url = entries[c][1].url
    OBVIOUS
  <2>2. entries[c] \in Batches /\ Len(entries[c]) = 1 /\ next[c] \in 1..Len(entries[c])
    BY <2>1 DEF IndInvariant, Stage
  <2>3. next[c] = 1
    BY <2>2
  <2>4. held[c] = {}
    BY <2>1, <2>3 DEF IndInvariant, Stage, Inserted
  <2>5. QED BY <2>1, <2>3, <2>4 DEF URLTaken, Visible, Row
<1>2. o \in Outcomes \ {"none"} /\ o \notin {"nil", "lost"}
  BY DEF Outcomes
<1>3. QED
  <2> DEFINE N == {}
  <2>1. /\ N \in SUBSET Entry /\ rows' = rows \cup N /\ Apart(N)
        /\ \A n \in N, r \in rows : ItemApart(n, r)
        /\ \A d \in Calls \ {c} : \A h \in held[d], n \in N : ItemApart(h, n)
    BY DEF Apart
  <2> HIDE DEF N
  <2>2. QED BY <1>1, <1>2, <2>1, EndsKeeps

----------------------------------------------------------------------------
(* The theorems                                                            *)

LEMMA InitIndInvariant == Init => IndInvariant
<1> SUFFICES ASSUME Init PROVE IndInvariant
  OBVIOUS
<1>1. /\ \A c \in Calls : /\ phase[c] = "idle" /\ entries[c] = <<>> /\ next[c] = 1
                          /\ held[c] = {} /\ outcome[c] = "none" /\ single[c] = FALSE
      /\ rows = {}
  BY DEF Init
<1>2. TypeOK
  BY DEF Init, TypeOK, Outcomes
<1>3. \A c \in Calls : Stage(c)
  BY <1>1 DEF Stage
<1>4. Separate
  BY <1>1 DEF Separate, Apart
<1>5. \A c \in Calls : Result(c)
  BY <1>1 DEF Result
<1>6. QED BY <1>2, <1>3, <1>4, <1>5 DEF IndInvariant

LEMMA DeleteKeeps ==
  ASSUME IndInvariant, NEW S \in SUBSET IDs, NEW u \in Users, DeleteUserURLs(S, u)
  PROVE  IndInvariant'
<1>1. /\ phase' = phase /\ single' = single /\ entries' = entries /\ next' = next
      /\ held' = held /\ outcome' = outcome /\ rows' = rows
      /\ deleted' \subseteq deleted \cup S
  BY DEF DeleteUserURLs, callVars
<1>2. TypeOK'
  BY <1>1 DEF IndInvariant, TypeOK
<1>3. QED
  BY <1>1, <1>2 DEF IndInvariant, Stage, Inserted, Separate, Apart, ItemApart, Result

LEMMA StutterKeeps ==
  ASSUME IndInvariant, UNCHANGED vars
  PROVE  IndInvariant'
BY DEF vars, callVars, IndInvariant, TypeOK, Stage, Inserted, Separate, Apart, ItemApart, Result

LEMMA StepKeeps == IndInvariant /\ [Next]_vars => IndInvariant'
<1> SUFFICES ASSUME IndInvariant, [Next]_vars PROVE IndInvariant'
  OBVIOUS
<1>1. ASSUME NEW c \in Calls, Save(c) PROVE IndInvariant'
  BY <1>1, CallKeeps DEF Save
<1>2. ASSUME NEW c \in Calls, SaveBatch(c) PROVE IndInvariant'
  BY <1>2, CallKeeps DEF SaveBatch
<1>3. ASSUME NEW c \in Calls, InsertHeld(c) PROVE IndInvariant'
  BY <1>3, InsertHeldKeeps
<1>4. ASSUME NEW c \in Calls, InsertSingle(c) PROVE IndInvariant'
  BY <1>4, InsertSingleKeeps
<1>5. ASSUME NEW c \in Calls, Commit(c) PROVE IndInvariant'
  BY <1>5, CommitKeeps
<1>6. ASSUME NEW c \in Calls, URLExists(c) PROVE IndInvariant'
  BY <1>6, RefusalKeeps DEF URLExists, NotInserted
<1>7. ASSUME NEW c \in Calls, IDExists(c) PROVE IndInvariant'
  BY <1>7, RefusalKeeps DEF IDExists, UniqueViolation
<1>8. ASSUME NEW c \in Calls, DeadlockVictim(c) PROVE IndInvariant'
  <2>1. phase[c] = "exec"
    BY <1>8 DEF DeadlockVictim, Deadlocked, Blockers
  <2>2. QED BY <1>8, <2>1, RefusalKeeps DEF DeadlockVictim
<1>9. ASSUME NEW c \in Calls, Break(c) PROVE IndInvariant'
  BY <1>9, RefusalKeeps DEF Break
<1>10. ASSUME NEW S \in SUBSET IDs, NEW u \in Users, DeleteUserURLs(S, u) PROVE IndInvariant'
  BY <1>10, DeleteKeeps
<1>11. CASE UNCHANGED vars
  BY <1>11, StutterKeeps
<1>12. QED
  BY <1>1, <1>2, <1>3, <1>4, <1>5, <1>6, <1>7, <1>8, <1>9, <1>10, <1>11 DEF Next, Work

LEMMA Inductive == Spec => []IndInvariant
BY InitIndInvariant, StepKeeps, PTL DEF Spec

\* The state of the calls is of the right kind, and a call that has returned
\* holds no row of the database, whatever the way it returned.
THEOREM TypeCorrect == Spec => []TypeOK
<1>1. IndInvariant => TypeOK
  BY DEF IndInvariant
<1>2. QED BY <1>1, Inductive, PTL

\* After Save has returned ErrURLExists, GetByOriginalURL finds one short id.
THEOREM ExistsMeansStoredHolds == Spec => []ExistsMeansStored
<1>1. IndInvariant => ExistsMeansStored
  <2> SUFFICES ASSUME IndInvariant, NEW c \in Calls, single[c], outcome[c] = "ErrURLExists"
               PROVE  \E id \in IDs : GetByOriginalURL(entries[c][1].url) = {id}
    BY DEF ExistsMeansStored
  <2>1. PICK r \in rows : r.url = entries[c][1].url
    BY DEF IndInvariant, Result
  <2>2. \A q \in rows : q.url = r.url => q = r
    BY DEF IndInvariant, Separate, Apart
  <2>3. r.id \in IDs
    BY DEF IndInvariant, TypeOK, Entry
  <2>4. GetByOriginalURL(entries[c][1].url) = {r.id}
    BY <2>1, <2>2 DEF GetByOriginalURL
  <2>5. QED BY <2>3, <2>4
<1>2. QED BY <1>1, Inductive, PTL

\* What a call that returned nil was given is listed, and leads to its url.
THEOREM NilMeansStoredHolds == Spec => []NilMeansStored
<1>1. IndInvariant => NilMeansStored
  <2> SUFFICES ASSUME IndInvariant, NEW c \in Calls, outcome[c] = "nil",
                      NEW e \in Range(entries[c])
               PROVE  /\ <<e.id, e.url>> \in GetURLsByUser(e.user)
                      /\ Get(e.id) \in {{e.url}, {"ErrDeleted"}}
    BY DEF NilMeansStored
  <2>1. e \in rows
    BY DEF IndInvariant, Result
  <2>2. \A q \in rows : q.id = e.id => q = e
    BY <2>1 DEF IndInvariant, Separate, Apart
  <2>3. {r.url : r \in {q \in rows : q.id = e.id}} = {e.url}
    BY <2>1, <2>2
  <2>4. QED BY <2>1, <2>3 DEF GetURLsByUser, Get
<1>2. QED BY <1>1, Inductive, PTL

----------------------------------------------------------------------------
(* The refinement                                                          *)

\* A step that changes neither what is asked nor the effect of any call is none
\* of the store's, if it leaves the rows and the deleted ids alone.
LEMMA NoEffect ==
  ASSUME Asked' = Asked, Effect' = Effect, rows' = rows, deleted' = deleted
  PROVE  UNCHANGED Store!svars
BY DEF Store!svars

\* The end of a call is the moment of its effect.
LEMMA EndsEffect ==
  ASSUME IndInvariant, NEW c \in Calls, phase[c] \in {"exec", "commit"},
         NEW o \in Outcomes \ {"none"}, Ends(c, o)
  PROVE  /\ Effect[c] = "none" /\ Asked[c] # {} /\ Asked[c] = Range(entries[c])
         /\ Asked' = Asked /\ deleted' = deleted
         /\ o \in {"nil", "lost"} => Effect' = [Effect EXCEPT ![c] = "stored"]
         /\ o \notin {"nil", "lost"} => Effect' = [Effect EXCEPT ![c] = "refused"]
<1>1. outcome[c] = "none" /\ entries[c] \in Batches
  BY DEF IndInvariant, Stage
<1>2. outcome' = [outcome EXCEPT ![c] = o] /\ entries' = entries /\ deleted' = deleted
  BY DEF Ends, callVars
<1>3. outcome'[c] = o /\ \A d \in Calls \ {c} : outcome'[d] = outcome[d]
  BY <1>2 DEF IndInvariant, TypeOK
<1>4. Effect[c] = "none" /\ Asked[c] = Range(entries[c]) /\ Asked' = Asked
  BY <1>1, <1>2 DEF Effect, Asked
<1>5. Asked[c] # {}
  BY <1>1, <1>4, BatchFacts
<1>6. o \in {"nil", "lost"} => Effect' = [Effect EXCEPT ![c] = "stored"]
  BY <1>3 DEF Effect
<1>7. o \notin {"nil", "lost"} => Effect' = [Effect EXCEPT ![c] = "refused"]
  BY <1>3 DEF Effect
<1>8. QED BY <1>2, <1>4, <1>5, <1>6, <1>7

LEMMA CallImplements ==
  ASSUME IndInvariant, NEW c \in Calls, NEW es \in Batches, NEW one \in BOOLEAN,
         Call(c, es, one)
  PROVE  Store!SNext
<1>1. entries[c] = <<>> /\ outcome[c] = "none"
  BY DEF IndInvariant, Stage, Call
<1>2. /\ entries' = [entries EXCEPT ![c] = es] /\ outcome' = outcome
      /\ rows' = rows /\ deleted' = deleted
  BY DEF Call
<1>3. Effect[c] = "none" /\ Effect' = Effect
  BY <1>1, <1>2 DEF Effect
<1>4. Asked[c] = {}
  BY <1>1 DEF Asked, Range
<1>5. Asked' = [Asked EXCEPT ![c] = Range(es)]
  <2>1. entries'[c] = es /\ \A d \in Calls \ {c} : entries'[d] = entries[d]
    BY <1>2 DEF IndInvariant, TypeOK
  <2>2. QED BY <2>1 DEF Asked
<1>6. Store!Ask(c, Range(es))
  BY <1>2, <1>3, <1>4, <1>5 DEF Store!Ask
<1>7. QED BY <1>6 DEF Store!SNext

\* The rows of a call are committed.
LEMMA CommitImplements ==
  ASSUME IndInvariant, IndInvariant', NEW c \in Calls, phase[c] \in {"exec", "commit"},
         NEW o \in {"nil", "lost"}, Ends(c, o), rows' = rows \cup Range(entries[c]),
         Range(entries[c]) \cap rows = {}
  PROVE  Store!SNext
<1>1. o \in Outcomes \ {"none"}
  BY DEF Outcomes
<1>2. /\ Effect[c] = "none" /\ Asked[c] # {} /\ Asked[c] = Range(entries[c])
      /\ Asked' = Asked /\ deleted' = deleted
      /\ Effect' = [Effect EXCEPT ![c] = "stored"]
  BY <1>1, EndsEffect
<1>3. Store!Apart(rows \cup Asked[c])
  BY <1>2 DEF IndInvariant, Separate, Apart, Store!Apart
<1>4. Store!Store(c)
  BY <1>2, <1>3 DEF Store!Store
<1>5. QED BY <1>4 DEF Store!SNext

LEMMA RefusalImplements ==
  ASSUME IndInvariant, NEW c \in Calls, phase[c] \in {"exec", "commit"}, rows' = rows,
         NEW o \in {"ErrURLExists", "ErrConflict", "error"}, Ends(c, o)
  PROVE  Store!SNext
<1>1. o \in Outcomes \ {"none"} /\ o \notin {"nil", "lost"}
  BY DEF Outcomes
<1>2. /\ Effect[c] = "none" /\ Asked[c] # {}
      /\ Asked' = Asked /\ deleted' = deleted
      /\ Effect' = [Effect EXCEPT ![c] = "refused"]
  BY <1>1, EndsEffect
<1>3. Store!Refuse(c)
  BY <1>2 DEF Store!Refuse
<1>4. QED BY <1>3 DEF Store!SNext

LEMMA StepImplements ==
  ASSUME IndInvariant, IndInvariant', [Next]_vars
  PROVE  [Store!SNext]_(Store!svars)
<1>1. ASSUME NEW c \in Calls, Save(c) PROVE Store!SNext
  BY <1>1, CallImplements DEF Save
<1>2. ASSUME NEW c \in Calls, SaveBatch(c) PROVE Store!SNext
  BY <1>2, CallImplements DEF SaveBatch
<1>3. ASSUME NEW c \in Calls, InsertHeld(c) PROVE UNCHANGED Store!svars
  <2>1. entries' = entries /\ outcome' = outcome /\ rows' = rows /\ deleted' = deleted
    BY <1>3 DEF InsertHeld, HoldRow, callVars
  <2>2. QED BY <2>1, NoEffect DEF Asked, Effect
<1>4. ASSUME NEW c \in Calls, InsertSingle(c) PROVE Store!SNext
  <2>1. phase[c] = "exec" /\ rows' = rows \cup Range(entries[c]) /\ Range(entries[c]) = {Row(c)}
    BY <1>4, InsertSingleKeeps DEF InsertSingle
  <2>2. PICK o \in {"nil", "lost"} : Ends(c, o)
    BY <1>4 DEF InsertSingle
  <2>3. Range(entries[c]) \cap rows = {}
    BY <1>4, <2>1, FreeFacts DEF InsertSingle, ItemApart
  <2>4. QED BY <2>1, <2>2, <2>3, CommitImplements
<1>5. ASSUME NEW c \in Calls, Commit(c) PROVE Store!SNext
  <2>1. phase[c] = "commit" /\ rows' = rows \cup held[c] /\ held[c] = Range(entries[c])
    BY <1>5, CommitKeeps DEF Commit
  <2>2. PICK o \in {"nil", "lost"} : Ends(c, o)
    BY <1>5 DEF Commit
  <2>3. held[c] \cap rows = {}
    BY DEF IndInvariant, Separate, ItemApart
  <2>4. QED BY <2>1, <2>2, <2>3, CommitImplements
<1>6. ASSUME NEW c \in Calls, URLExists(c) PROVE Store!SNext
  BY <1>6, RefusalImplements DEF URLExists, NotInserted
<1>7. ASSUME NEW c \in Calls, IDExists(c) PROVE Store!SNext
  BY <1>7, RefusalImplements DEF IDExists, UniqueViolation
<1>8. ASSUME NEW c \in Calls, DeadlockVictim(c) PROVE Store!SNext
  <2>1. phase[c] = "exec"
    BY <1>8 DEF DeadlockVictim, Deadlocked, Blockers
  <2>2. QED BY <1>8, <2>1, RefusalImplements DEF DeadlockVictim
<1>9. ASSUME NEW c \in Calls, Break(c) PROVE Store!SNext
  BY <1>9, RefusalImplements DEF Break
<1>10. ASSUME NEW S \in SUBSET IDs, NEW u \in Users, DeleteUserURLs(S, u) PROVE Store!SNext
  <2>1. /\ Asked' = Asked /\ Effect' = Effect /\ rows' = rows
        /\ deleted' = deleted \cup {l.id : l \in {m \in rows : m.id \in S /\ m.user = u}}
    BY <1>10 DEF DeleteUserURLs, callVars, Asked, Effect
  <2>2. Store!Delete(S, u)
    BY <2>1 DEF Store!Delete
  <2>3. QED BY <2>2 DEF Store!SNext
<1>11. CASE UNCHANGED vars
  BY <1>11, NoEffect DEF vars, callVars, Asked, Effect
<1>12. QED
  BY <1>1, <1>2, <1>3, <1>4, <1>5, <1>6, <1>7, <1>8, <1>9, <1>10, <1>11 DEF Next, Work

\* Whatever calls run at a time and however they fail, each takes effect at one
\* moment, with all of its links or none, and no url or short id is given twice.
THEOREM Implementation == Spec => ImplementsLinkStore
<1>1. Init => Store!SInit
  <2> SUFFICES ASSUME Init PROVE Store!SInit
    OBVIOUS
  <2>1. \A c \in Calls : entries[c] = <<>> /\ outcome[c] = "none"
    BY DEF Init
  <2>2. Asked = [c \in Calls |-> {}] /\ Effect = [c \in Calls |-> "none"]
    BY <2>1 DEF Asked, Effect, Range
  <2>3. QED BY <2>2 DEF Init, Store!SInit
<1>2. IndInvariant /\ IndInvariant' /\ [Next]_vars => [Store!SNext]_(Store!svars)
  BY StepImplements
<1>3. QED
  BY <1>1, <1>2, Inductive, PTL DEF Spec, ImplementsLinkStore, Store!SSpec

----------------------------------------------------------------------------
(* No deadlock but those that the database ends                            *)

\* The call's next statement can be executed, whatever it answers: the guards of
\* InsertHeld, InsertSingle, URLExists and IDExists together, and that of Commit.
Executable(c) == phase[c] = "commit" \/ (phase[c] = "exec" /\ Blockers(c) = {})

Started(c) == phase[c] \in {"exec", "commit"}

\* A call that cannot go on waits for others that have not ended, and if none can go on
\* some of them are a circle, of which the database picks its victim.
SomeoneGoesOn ==
  /\ \A c \in Calls : Started(c) =>
       Executable(c) \/ (Blockers(c) # {} /\ \A d \in Blockers(c) : Started(d))
  /\ (\E c \in Calls : Started(c)) => \E c \in Calls : Executable(c) \/ Deadlocked(c)

\* A finite set that is mapped into itself has a part that is permuted.
LEMMA Circle ==
  ASSUME NEW W, IsFiniteSet(W), W # {}, NEW f \in [W -> W]
  PROVE  \E X \in SUBSET W :
           /\ X # {}
           /\ \E g \in [X -> X] : IsInjective(g) /\ \A x \in X : g[x] = f[x]
<1> DEFINE Closed(X) == X # {} /\ \A x \in X : f[x] \in X
           T == {X \in SUBSET W : Closed(X)}
<1>1. T \subseteq SUBSET W /\ W \in T
  OBVIOUS
<1>2. IsWellFoundedOn(StrictSubsetOrdering(W), SUBSET W)
  BY FS_StrictSubsetOrderingWellFounded, FS_FiniteSubsetsOfFinite
<1>3. PICK X \in T : \A Y \in T : <<Y, X>> \notin StrictSubsetOrdering(W)
  <2> HIDE DEF T
  <2>1. T # {}
    BY <1>1
  <2>2. QED
    BY <1>1, <1>2, <2>1, WFMin
<1>4. X \in SUBSET W /\ Closed(X)
  BY <1>3
<1> DEFINE Y == {f[x] : x \in X}
           g == [x \in X |-> f[x]]
<1>5. Y \subseteq X /\ Y \in T
  BY <1>4
<1>6. Y = X
  <2> HIDE DEF T, Y
  <2>1. <<Y, X>> \notin StrictSubsetOrdering(W)
    BY <1>3, <1>5
  <2>2. QED
    BY <2>1, <1>4, <1>5 DEF StrictSubsetOrdering
<1>7. g \in Surjection(X, X)
  <2>1. g \in [X -> X]
    BY <1>4
  <2>2. \A t \in X : \E x \in X : g[x] = t
    BY <1>6
  <2>3. QED
    BY <2>1, <2>2 DEF Surjection
<1>8. IsFiniteSet(X)
  BY <1>4, FS_Subset
<1>9. g \in Injection(X, X)
  <2> HIDE DEF g
  <2>1. QED
    BY <1>7, <1>8, FS_Surjection
<1>10. g \in [X -> X] /\ IsInjective(g) /\ \A x \in X : g[x] = f[x]
  BY <1>9 DEF Injection
<1>11. X # {}
  BY <1>4
<1> HIDE DEF g, T
<1>12. QED
  BY <1>4, <1>10, <1>11

\* A transaction in the way holds a row, and so has not ended.
LEMMA BlockersStarted ==
  ASSUME IndInvariant, NEW c \in Calls, NEW d \in Blockers(c)
  PROVE  d \in Calls /\ Started(d)
<1>1. d \in Calls /\ held[d] # {}
  BY DEF Blockers, URLBlockers, IDBlockers
<1>2. QED
  BY <1>1 DEF IndInvariant, TypeOK, Started

\* No deadlock but those that the database ends: as long as some of finitely many calls
\* are under way, one can go on, or some are a circle that DeadlockVictim breaks; and
\* nobody waits for a call that has ended.
THEOREM SomeoneGoesOnHolds == ASSUME IsFiniteSet(Calls) PROVE Spec => []SomeoneGoesOn
<1>1. IndInvariant => SomeoneGoesOn
  <2> SUFFICES ASSUME IndInvariant PROVE SomeoneGoesOn
    OBVIOUS
  <2>1. ASSUME NEW c \in Calls, Started(c), ~Executable(c)
        PROVE  /\ phase[c] = "exec" /\ Blockers(c) # {}
               /\ \A d \in Blockers(c) : d \in Calls /\ Started(d)
    BY <2>1, BlockersStarted DEF Started, Executable
  <2>2. ASSUME NEW a \in Calls, Started(a), \A c \in Calls : ~Executable(c)
        PROVE  \E c \in Calls : Deadlocked(c)
    <3> DEFINE W == {c \in Calls : Started(c)}
               f == [c \in W |-> CHOOSE d \in W : d \in Blockers(c)]
    <3>1. \A c \in W : \E d \in W : d \in Blockers(c)
      BY <2>1, <2>2
    <3>2. f \in [W -> W] /\ \A c \in W : f[c] \in Blockers(c)
      BY <3>1
    <3>3. IsFiniteSet(W) /\ W # {}
      BY <2>2, FS_Subset
    <3>4. W \subseteq Calls
      OBVIOUS
    <3> HIDE DEF W, f
    <3>5. PICK X \in SUBSET W :
            /\ X # {}
            /\ \E g \in [X -> X] : IsInjective(g) /\ \A x \in X : g[x] = f[x]
      BY <3>2, <3>3, Circle
    <3>6. PICK g \in [X -> X] : IsInjective(g) /\ \A x \in X : g[x] = f[x]
      BY <3>5
    <3>7. PICK c \in X : TRUE
      BY <3>5
    <3>8. X \in SUBSET Calls /\ c \in Calls
      BY <3>4, <3>7
    <3>9. \A d \in X : g[d] \in Blockers(d)
      BY <3>2, <3>6
    <3>10. Deadlocked(c)
      BY <3>6, <3>7, <3>8, <3>9 DEF Deadlocked
    <3>11. QED
      BY <3>8, <3>10
  <2>3. QED
    BY <2>1, <2>2 DEF SomeoneGoesOn
<1>2. QED
  BY Inductive, <1>1, PTL

\* How many statements a call has still to make
StepsLeft(c) ==
  CASE phase[c] = "exec" -> Len(entries[c]) - next[c] + 2
    [] phase[c] = "commit" -> 1
    [] OTHER -> 0

\* A statement is never made again, and no other call's statement, deletion, failure or
\* deadlock sets a call back.
RunsDown ==
  [][\A c \in Calls : Started(c) => /\ StepsLeft(c)' \in Nat
                                    /\ StepsLeft(c)' <= StepsLeft(c)
                                    /\ Work(c) => StepsLeft(c)' < StepsLeft(c)]_vars

LEMMA StepsLeftType ==
  ASSUME IndInvariant, NEW c \in Calls
  PROVE  /\ StepsLeft(c) \in Nat
         /\ Started(c) => StepsLeft(c) > 0
<1>1. CASE phase[c] = "exec"
  <2>1. entries[c] \in Seq(Entry) /\ next[c] \in 1..Len(entries[c])
    BY <1>1 DEF IndInvariant, TypeOK
  <2>2. Len(entries[c]) \in Nat
    BY <2>1
  <2>3. QED
    BY <1>1, <2>1, <2>2 DEF StepsLeft
<1>2. CASE phase[c] # "exec"
  BY <1>2 DEF StepsLeft, Started
<1>3. QED
  BY <1>1, <1>2

\* A step of the call itself that makes a statement or ends it
LEMMA OwnStep ==
  ASSUME IndInvariant, NEW c \in Calls, Started(c), Work(c) \/ Break(c)
  PROVE  StepsLeft(c)' < StepsLeft(c)
<1>1. StepsLeft(c) \in Nat /\ StepsLeft(c) > 0
  BY StepsLeftType
<1>2. CASE \E o \in Outcomes : Ends(c, o)
  <2>1. phase'[c] = "done"
    BY <1>2 DEF Ends, IndInvariant, TypeOK
  <2>2. QED
    BY <1>1, <2>1 DEF StepsLeft
<1>3. CASE InsertHeld(c)
  <2>1. /\ phase[c] = "exec" /\ entries' = entries
        /\ next[c] \in 1..Len(entries[c]) /\ Len(entries[c]) \in Nat
    BY <1>3 DEF InsertHeld, callVars, IndInvariant, TypeOK
  <2>2. \/ phase'[c] = "commit" /\ next[c] = Len(entries[c])
        \/ phase'[c] = "exec" /\ next'[c] = next[c] + 1
    BY <1>3 DEF InsertHeld, IndInvariant, TypeOK
  <2>3. QED
    BY <2>1, <2>2 DEF StepsLeft
<1>4. QED
  BY <1>2, <1>3 DEF Work, Break, InsertSingle, Commit, URLExists, IDExists, DeadlockVictim,
     NotInserted, UniqueViolation, Outcomes

\* Each call comes to its end in as many of its own steps as it has rows left, and two
\* more: with SomeoneGoesOn, all calls end if the database goes on working.
THEOREM RunsDownHolds == Spec => RunsDown
<1>1. ASSUME IndInvariant, IndInvariant', [Next]_vars, NEW c \in Calls, Started(c)
      PROVE  /\ StepsLeft(c)' \in Nat
             /\ StepsLeft(c)' <= StepsLeft(c)
             /\ Work(c) => StepsLeft(c)' < StepsLeft(c)
  <2> USE <1>1
  <2>1. StepsLeft(c) \in Nat /\ StepsLeft(c)' \in Nat
    <3>1. StepsLeft(c) \in Nat
      BY StepsLeftType
    <3>2. StepsLeft(c)' \in Nat
      <4>1. entries'[c] \in Seq(Entry) /\ (phase'[c] = "exec" => next'[c] \in 1..Len(entries'[c]))
        BY DEF IndInvariant, TypeOK
      <4>2. Len(entries'[c]) \in Nat
        BY <4>1
      <4>3. QED
        BY <4>1, <4>2 DEF StepsLeft
    <3>3. QED
      BY <3>1, <3>2
  <2>2. Work(c) \/ Break(c) => StepsLeft(c)' < StepsLeft(c)
    BY OwnStep
  <2>3. Work(c) \/ Break(c) \/ StepsLeft(c)' = StepsLeft(c)
    <3>1. ASSUME NEW d \in Calls \ {c}, Save(d) \/ SaveBatch(d) \/ Work(d) \/ Break(d)
          PROVE  phase'[c] = phase[c] /\ entries'[c] = entries[c] /\ next'[c] = next[c]
      BY <3>1 DEF Save, SaveBatch, Call, Work, Break, InsertHeld, InsertSingle, Commit, URLExists,
         IDExists, DeadlockVictim, Ends, callVars, IndInvariant, TypeOK
    <3>2. ~Save(c) /\ ~SaveBatch(c)
      BY DEF Save, SaveBatch, Call, Started
    <3>3. ASSUME UNCHANGED vars \/ \E S \in SUBSET IDs, u \in Users : DeleteUserURLs(S, u)
          PROVE  UNCHANGED <<phase, entries, next>>
      BY <3>3 DEF vars, callVars, DeleteUserURLs
    <3>4. QED
      BY <3>1, <3>2, <3>3 DEF Next, StepsLeft
  <2>4. QED
    BY <2>1, <2>2, <2>3
<1>2. IndInvariant /\ IndInvariant' /\ [Next]_vars =>
        [\A c \in Calls : Started(c) => /\ StepsLeft(c)' \in Nat
                                        /\ StepsLeft(c)' <= StepsLeft(c)
                                        /\ Work(c) => StepsLeft(c)' < StepsLeft(c)]_vars
  BY <1>1
<1>3. QED
  BY <1>2, Inductive, PTL DEF Spec, RunsDown
=============================================================================
