------------------------- MODULE PostgresRepository -------------------------
(***************************************************************************)
(* The Postgres repository (internal/repository/postgres.go): Save,        *)
(* SaveBatch and DeleteUserURLs on the table urls of the migrations.       *)
(*                                                                         *)
(* The database is external: at its default isolation level an INSERT sees *)
(* the committed rows and those of its own transaction, and waits for      *)
(* another transaction that has inserted, but not yet committed, a row     *)
(* with the same url or short id.  A cycle of transactions that wait is    *)
(* broken by failing one of them.  The unique index on original_url is     *)
(* looked at before the one on short_id, for it is the ON CONFLICT target. *)
(* The definitions introduced as slips are mutations, not part of the      *)
(* specification.                                                          *)
(***************************************************************************)
EXTENDS Naturals, Sequences, FiniteSets, Functions

CONSTANTS
  Calls,        \* the calls of Save and SaveBatch
  IDs, URLs, Users,
  Batches       \* what they are called with: sequences of Entry

Entry == [id : IDs, url : URLs, user : Users]

ASSUME BatchesAssumption == Batches \subseteq Seq(Entry) \ {<<>>}

VARIABLES
  phase,        \* "idle", "exec", "commit" or "done"
  single,       \* Save, not SaveBatch
  entries,      \* the entries of each call
  next,         \* index of the entry that is inserted next
  held,         \* rows a transaction has inserted and not committed
  outcome,      \* what the call returns; "lost": an error, though it committed
  rows,         \* the committed rows
  deleted       \* ids of those whose is_deleted is set

callVars == <<single, entries>>
vars == <<phase, callVars, next, held, outcome, rows, deleted>>

Outcomes == {"none", "nil", "ErrURLExists", "ErrConflict", "error", "lost"}

TypeOK ==
  /\ phase \in [Calls -> {"idle", "exec", "commit", "done"}]
  /\ single \in [Calls -> BOOLEAN]
  /\ entries \in [Calls -> Seq(Entry)]
  /\ next \in [Calls -> Nat]
  /\ held \in [Calls -> SUBSET Entry]
  /\ outcome \in [Calls -> Outcomes]
  /\ rows \in SUBSET Entry
  /\ deleted \in SUBSET IDs
  /\ \A c \in Calls : /\ phase[c] = "exec" => next[c] \in 1..Len(entries[c])
                      /\ phase[c] \in {"idle", "done"} => held[c] = {}

Init ==
  /\ phase = [c \in Calls |-> "idle"]
  /\ single = [c \in Calls |-> FALSE]
  /\ entries = [c \in Calls |-> <<>>]
  /\ next = [c \in Calls |-> 1]
  /\ held = [c \in Calls |-> {}]
  /\ outcome = [c \in Calls |-> "none"]
  /\ rows = {}
  /\ deleted = {}

----------------------------------------------------------------------------
(* The database                                                            *)

\* The row that the call is about to insert
Row(c) == entries[c][next[c]]

\* Rows that an INSERT of the call sees
Visible(c) == rows \cup held[c]

URLTaken(c) == \E r \in Visible(c) : r.url = Row(c).url

IDTaken(c) == \E r \in Visible(c) : r.id = Row(c).id

\* Other transactions that the INSERT waits for.  A url that is taken, or an id
\* that is taken while nobody is inserting the url, ends it without a wait.
URLBlockers(c) == {d \in Calls \ {c} : \E r \in held[d] : r.url = Row(c).url}
IDBlockers(c) == {d \in Calls \ {c} : \E r \in held[d] : r.id = Row(c).id}

Blockers(c) ==
  IF phase[c] # "exec" \/ URLTaken(c) THEN {}
  ELSE IF URLBlockers(c) # {} THEN URLBlockers(c)
  ELSE IF IDTaken(c) THEN {} ELSE IDBlockers(c)

\* The call is one of a circle of calls that wait for each other.
Deadlocked(c) ==
  /\ Blockers(c) # {}
  /\ \E S \in SUBSET Calls : /\ c \in S
                             /\ \E f \in [S -> S] : /\ IsInjective(f)
                                                    /\ \A d \in S : f[d] \in Blockers(d)

----------------------------------------------------------------------------
(* Save and SaveBatch                                                      *)

Call(c, es, one) ==
  /\ phase[c] = "idle"
  /\ phase' = [phase EXCEPT ![c] = "exec"]
  /\ entries' = [entries EXCEPT ![c] = es]
  /\ single' = [single EXCEPT ![c] = one]
  /\ UNCHANGED <<next, held, outcome, rows, deleted>>

Save(c) == \E es \in Batches : Len(es) = 1 /\ Call(c, es, TRUE)
SaveBatch(c) == \E es \in Batches : Call(c, es, FALSE)

\* Slip: a batch that fails leaves its transaction open.
ReleaseNot(c) == UNCHANGED held

\* The transaction's rows are committed or rolled back, its locks released.
Release(c) == held' = [held EXCEPT ![c] = {}]

\* The call returns, and its transaction is rolled back unless committed.
Ends(c, o) ==
  /\ phase' = [phase EXCEPT ![c] = "done"]
  /\ outcome' = [outcome EXCEPT ![c] = o]
  /\ Release(c)
  /\ UNCHANGED <<callVars, next, deleted>>

\* Slip: every row of a batch is committed by itself.
KeepRow(c) == rows' = rows \cup {Row(c)} /\ held' = held

\* A transaction keeps its rows to itself.
HoldRow(c) == held' = [held EXCEPT ![c] = @ \cup {Row(c)}] /\ rows' = rows

\* One row of a batch is inserted.
InsertHeld(c) ==
  /\ phase[c] = "exec" /\ ~single[c]
  /\ ~URLTaken(c) /\ ~IDTaken(c) /\ Blockers(c) = {}
  /\ HoldRow(c)
  /\ IF next[c] = Len(entries[c])
       THEN phase' = [phase EXCEPT ![c] = "commit"] /\ UNCHANGED next
       ELSE next' = [next EXCEPT ![c] = @ + 1] /\ UNCHANGED phase
  /\ UNCHANGED <<callVars, outcome, deleted>>

\* Save has no transaction of its own: its row is committed with the statement.
\* The answer may be lost with the connection, or come after the cancellation.
InsertSingle(c) ==
  /\ phase[c] = "exec" /\ single[c]
  /\ ~URLTaken(c) /\ ~IDTaken(c) /\ Blockers(c) = {}
  /\ rows' = rows \cup {Row(c)}
  /\ Ends(c, "nil") \/ Ends(c, "lost")

Commit(c) ==
  /\ phase[c] = "commit"
  /\ rows' = rows \cup held[c]
  /\ Ends(c, "nil") \/ Ends(c, "lost")

\* Slip: DO NOTHING is taken for success.
NothingInserted == "nil"

\* No row affected: the url is there already.
NotInserted == "ErrURLExists"

URLExists(c) ==
  /\ phase[c] = "exec"
  /\ URLTaken(c)
  /\ Ends(c, NotInserted)
  /\ UNCHANGED rows

\* Slip: the two kinds of conflict are mixed up.
ViolationAsURL == "ErrURLExists"

\* pgerrcode.UniqueViolation
UniqueViolation == "ErrConflict"

IDExists(c) ==
  /\ phase[c] = "exec"
  /\ ~URLTaken(c) /\ URLBlockers(c) = {} /\ IDTaken(c)
  /\ Ends(c, UniqueViolation)
  /\ UNCHANGED rows

\* The database ends a deadlock by failing one of its transactions.
DeadlockVictim(c) ==
  /\ Deadlocked(c)
  /\ Ends(c, "error")
  /\ UNCHANGED rows

\* The context is cancelled or the connection lost.
Break(c) ==
  /\ phase[c] \in {"exec", "commit"}
  /\ Ends(c, "error")
  /\ UNCHANGED rows

----------------------------------------------------------------------------
(* DeleteUserURLs: a single UPDATE                                         *)

DeleteUserURLs(S, u) ==
  /\ S # {}
  /\ deleted' = deleted \cup {r.id : r \in {q \in rows : q.id \in S /\ q.user = u}}
  /\ UNCHANGED <<phase, callVars, next, held, outcome, rows>>

----------------------------------------------------------------------------
(* The specification                                                       *)

Work(c) ==
  \/ InsertHeld(c) \/ InsertSingle(c) \/ Commit(c)
  \/ URLExists(c) \/ IDExists(c) \/ DeadlockVictim(c)

Next ==
  \/ \E c \in Calls : Save(c) \/ SaveBatch(c) \/ Work(c) \/ Break(c)
  \/ \E S \in SUBSET IDs, u \in Users : DeleteUserURLs(S, u)

Spec == Init /\ [][Next]_vars

\* The database executes statements that can be executed, and detects deadlocks.
FairSpec == Spec /\ \A c \in Calls : WF_vars(Work(c))

----------------------------------------------------------------------------
(* What the SELECTs answer                                                 *)

Get(id) ==
  IF id \in deleted THEN {"ErrDeleted"} ELSE {r.url : r \in {q \in rows : q.id = id}}

GetByOriginalURL(url) == {r.id : r \in {q \in rows : q.url = url}}

GetURLsByUser(u) == {<<r.id, r.url>> : r \in {q \in rows : q.user = u}}

----------------------------------------------------------------------------
(* Properties                                                              *)

\* The service looks a url up after ErrURLExists of Save, and finds one short id:
\* the row that was in the way is committed, and rows are never removed.
ExistsMeansStored ==
  \A c \in Calls : single[c] /\ outcome[c] = "ErrURLExists" =>
    \E id \in IDs : GetByOriginalURL(entries[c][1].url) = {id}

\* A call that returned nil has stored its links, every one of them and for good:
\* each is listed as its owner's and leads to its url unless it is deleted.
NilMeansStored ==
  \A c \in Calls : outcome[c] = "nil" =>
    \A e \in Range(entries[c]) :
      /\ <<e.id, e.url>> \in GetURLsByUser(e.user)
      /\ Get(e.id) \in {{e.url}, {"ErrDeleted"}}

\* Batches that wait for each other, in whatever order their rows come, do not
\* wait for ever, nor for a batch that has ended.
EveryCallEnds ==
  \A c \in Calls : phase[c] = "exec" ~> phase[c] = "done"

\* Each call takes effect at one moment, wholly or not at all; no url or id is
\* given twice; only the owner's links are deleted.
Asked == [c \in Calls |-> Range(entries[c])]

Effect ==
  [c \in Calls |-> CASE outcome[c] = "none" -> "none"
                     [] outcome[c] \in {"nil", "lost"} -> "stored"
                     [] OTHER -> "refused"]

Store == INSTANCE LinkStore WITH
  Requests <- {Range(es) : es \in Batches},
  wanted <- Asked, effect <- Effect, stored <- rows

ImplementsLinkStore == Store!SSpec
=============================================================================
