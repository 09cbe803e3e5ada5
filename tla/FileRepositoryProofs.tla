------------------------ MODULE FileRepositoryProofs ------------------------
(***************************************************************************)
(* Proofs about FileRepository, for any ids, urls and users, batches of    *)
(* any length, any number of failures, and any number of restarts.         *)
(***************************************************************************)
EXTENDS FileRepository, MemoryRepositoryProofs, FiniteSetTheorems

\* The types, without the listings; an id has a url exactly if it has an owner.
Types ==
  /\ MapsType
  /\ \A i \in IDs : data[i] # None <=> owners[i] # None
  /\ file \in Seq(Record \cup {Torn})
  /\ nextUUID \in Nat
  /\ server \in {"up", "down", "clean", "failed"}
  /\ flush \in {"no", "batch", "close"}
  /\ left \subseteq IDs
  /\ pending \subseteq Link
  /\ acked \subseteq Link
  /\ disk \in {"good", "behind", "lost"}

\* The lines with one id tell one story, whichever of them a load keeps.
OneStory == \A l, m \in Lines : l.id = m.id => l.url = m.url /\ l.user = m.user

\* The file does not contradict the maps.
Agree == \A l \in Lines : /\ data[l.id] = l.url
                          /\ owners[l.id] = l.user
                          /\ l.del => l.id \in deleted

\* Every id of the maps has a line, but for those of the set S.
WrittenBut(S) == \A i \in IDs : data[i] # None => i \in S \/ \E l \in Lines : l.id = i

Contents ==
  /\ ReverseRight
  /\ OneStory
  /\ server \in {"up", "clean"} => Agree

\* What a rewrite has written so far: lines in order, one for an id.
Exact ==
  /\ Whole
  /\ \A j, k \in DOMAIN file : file[j].id = file[k].id => j = k
  /\ \A l \in Lines : l.id \in deleted => l.del
  /\ WrittenBut(left)

Rewriting ==
  /\ flush = "no" => left = {} /\ pending = {}
  /\ flush # "no" => /\ server = "up" /\ disk # "good"
                     /\ \A i \in left : data[i] # None
                     /\ \A l \in Lines : l.id \notin left
                     /\ \A p \in pending : data[p.id] = p.url
  /\ flush # "no" \/ server = "clean" => Exact

Durable ==
  /\ server # "up" => disk # "behind"
  /\ disk = "good" => /\ Whole
                      /\ \A l \in acked : OnDisk(l)
                      /\ server = "up" => WrittenBut({})
  /\ server = "up" /\ disk # "lost" => \A l \in acked : Resolves(l)

\* The ids of the maps.
Known == {i \in IDs : data[i] # None}

\* Numbers are handed out faster than the maps grow, so that those of a rewrite,
\* which counts from one, stay below the counter.
Numbered ==
  /\ UUIDsDistinct
  /\ \A l \in Lines : l.uuid \in 1..Len(file) + nextUUID
  /\ server = "up" => IsFiniteSet(Known) /\ Cardinality(Known) < nextUUID
  /\ server = "up" /\ flush = "no" => \A l \in Lines : l.uuid < nextUUID
  /\ flush # "no" => /\ \A k \in DOMAIN file : file[k].uuid = k
                     /\ IsFiniteSet(left)
                     /\ Len(file) + Cardinality(left) < nextUUID

IInv == Types /\ Contents /\ Rewriting /\ Durable /\ Numbered

----------------------------------------------------------------------------
(* The lines of the file                                                   *)

LEMMA RecordFacts ==
  ASSUME NEW r \in Record
  PROVE  /\ r # Torn
         /\ r.uuid \in Nat /\ r.id \in IDs /\ r.url \in URLs
         /\ r.user \in Owner /\ r.del \in BOOLEAN
         /\ r.url # None /\ r.user # None
BY TornAssumption, NoneAssumption DEF Record, Owner

LEMMA LinesFacts ==
  ASSUME file \in Seq(Record \cup {Torn})
  PROVE  /\ Len(file) \in Nat /\ DOMAIN file = 1..Len(file)
         /\ \A l \in Lines : l \in Record /\ \E k \in 1..Len(file) : file[k] = l
         /\ \A k \in 1..Len(file) : file[k] # Torn => file[k] \in Lines /\ file[k] \in Record
         /\ Whole => \A k \in 1..Len(file) : file[k] \in Lines /\ file[k] \in Record
<1>1. Len(file) \in Nat /\ DOMAIN file = 1..Len(file)
  OBVIOUS
<1>2. \A k \in 1..Len(file) : file[k] \in Record \cup {Torn}
  OBVIOUS
<1>3. QED BY <1>1, <1>2 DEF Lines, Whole

\* One more line, torn or not.
LEMMA AppendEffect ==
  ASSUME file \in Seq(Record \cup {Torn}), NEW rec \in Record \cup {Torn},
         file' = Append(file, rec)
  PROVE  /\ file' \in Seq(Record \cup {Torn})
         /\ Len(file') = Len(file) + 1
         /\ DOMAIN file' = 1..Len(file) + 1
         /\ \A k \in 1..Len(file) : file'[k] = file[k]
         /\ file'[Len(file) + 1] = rec
         /\ Lines \subseteq Lines'
         /\ \A l \in Lines' : l \in Lines \/ l = rec
         /\ rec # Torn => rec \in Lines'
         /\ Whole /\ rec # Torn => Whole'
<1>1. /\ file' \in Seq(Record \cup {Torn})
      /\ Len(file') = Len(file) + 1
      /\ DOMAIN file' = 1..Len(file) + 1
      /\ \A k \in 1..Len(file) : file'[k] = file[k]
      /\ file'[Len(file) + 1] = rec
  OBVIOUS
<1>2. DOMAIN file = 1..Len(file) /\ Len(file) \in Nat
  OBVIOUS
<1>3. Lines \subseteq Lines'
  BY <1>1, <1>2 DEF Lines
<1>4. \A l \in Lines' : l \in Lines \/ l = rec
  BY <1>1, <1>2 DEF Lines
<1>5. rec # Torn => rec \in Lines'
  BY <1>1, <1>2 DEF Lines
<1>6. Whole /\ rec # Torn => Whole'
  BY <1>1, <1>2 DEF Whole
<1>7. QED BY <1>1, <1>3, <1>4, <1>5, <1>6

\* A line for an unterminated file is swallowed by its last one.
LEMMA ExtendEffect ==
  ASSUME file \in Seq(Record \cup {Torn}), NEW rec \in Record \cup {Torn},
         file' = Extend(rec)
  PROVE  /\ file' = file \/ file' = Append(file, rec)
         /\ Whole => file' = Append(file, rec)
         /\ file' \in Seq(Record \cup {Torn})
         /\ Lines \subseteq Lines'
         /\ \A l \in Lines' : l \in Lines \/ l = rec
         /\ Whole /\ rec # Torn => Whole' /\ rec \in Lines'
<1>1. file' = file \/ file' = Append(file, rec)
  BY DEF Extend
<1>2. Whole => file' = Append(file, rec)
  <2>1. Len(file) \in Nat /\ DOMAIN file = 1..Len(file) /\ (Len(file) = 0 => file = <<>>)
    OBVIOUS
  <2>2. Whole /\ file # <<>> => file[Len(file)] # Torn
    BY <2>1 DEF Whole
  <2>3. QED BY <2>2 DEF Extend
<1>3. CASE file' = file
  <2>1. Lines' = Lines /\ file' \in Seq(Record \cup {Torn})
    BY <1>3 DEF Lines
  <2>2. Whole => file' = Append(file, rec)
    BY <1>2
  <2>3. Whole => Len(file') = Len(file) + 1
    BY <2>2
  <2>4. QED BY <1>1, <1>3, <2>1, <2>2, <2>3, AppendEffect
<1>4. CASE file' = Append(file, rec)
  BY <1>4, AppendEffect
<1>5. QED BY <1>1, <1>3, <1>4

LEMMA EmptyFile ==
  ASSUME file' = <<>>
  PROVE  /\ file' \in Seq(Record \cup {Torn}) /\ Len(file') = 0 /\ DOMAIN file' = {}
         /\ Lines' = {} /\ Whole'
BY DEF Lines, Whole

----------------------------------------------------------------------------
(* The maps                                                                *)

\* What a successful SaveBatch of entries with ids of their own does.
LEMMA SaveBatchEffect ==
  ASSUME Types, ReverseRight, NEW n \in Nat, NEW es \in [1..n -> Entry], SaveBatch(es),
         \A j, k \in 1..n : es[j].id = es[k].id => j = k
  PROVE  /\ MapsType' /\ ReverseRight' /\ deleted' = deleted
         /\ \A i \in IDs : data'[i] # None <=> owners'[i] # None
         /\ \A i \in IDs : data[i] # None => data'[i] = data[i] /\ owners'[i] = owners[i]
         /\ \A k \in 1..n : /\ es[k] \in Entry
                            /\ data[es[k].id] = None
                            /\ data'[es[k].id] = es[k].url
                            /\ owners'[es[k].id] = es[k].user
         /\ \A i \in IDs : data'[i] # None => data[i] # None \/ \E k \in 1..n : es[k].id = i
<1>1. MapsType /\ Put(es)
  BY DEF Types, SaveBatch
<1>2. \A k \in 1..n : /\ es[k] \in Entry
                      /\ es[k].id \in IDs /\ es[k].url \in URLs /\ es[k].user \in Owner
                      /\ es[k].url # None /\ es[k].user # None
  BY NoneAssumption DEF Entry, Owner
<1>3. \A i \in IDs :
         \/ \E k \in 1..n : es[k].id = i /\ data'[i] = es[k].url /\ owners'[i] = es[k].user
         \/ data'[i] = data[i] /\ owners'[i] = owners[i]
  BY <1>1, PutEffect
<1>4. MapsType' /\ ReverseRight' /\ deleted' = deleted
  BY <1>1, SaveBatchKeeps, SaveBatchReverse
<1>5. \A i \in IDs : data[i] # None => data'[i] = data[i] /\ owners'[i] = owners[i]
  BY <1>1, SaveBatchKeeps
<1>6. \A i \in IDs : data'[i] # None <=> owners'[i] # None
  BY <1>2, <1>3 DEF Types
<1>7. ASSUME NEW k \in 1..n
      PROVE  /\ data[es[k].id] = None
             /\ data'[es[k].id] = es[k].url
             /\ owners'[es[k].id] = es[k].user
  <2>1. data[es[k].id] = None
    BY <1>1, SaveBatchIsNew
  <2>2. data'[es[k].id] = es[k].url
    BY <1>1, SaveBatchStores
  <2>3. data'[es[k].id] # data[es[k].id]
    BY <1>2, <2>1, <2>2
  <2>4. PICK j \in 1..n : es[j].id = es[k].id /\ owners'[es[k].id] = es[j].user
    BY <1>2, <1>3, <2>3
  <2>5. QED BY <2>1, <2>2, <2>4
<1>8. \A i \in IDs : data'[i] # None => data[i] # None \/ \E k \in 1..n : es[k].id = i
  BY <1>3
<1>9. QED BY <1>2, <1>4, <1>5, <1>6, <1>7, <1>8

LEMMA SaveEffect ==
  ASSUME Types, ReverseRight, NEW e \in Entry, Save(e)
  PROVE  /\ MapsType' /\ ReverseRight' /\ deleted' = deleted
         /\ \A i \in IDs : data'[i] # None <=> owners'[i] # None
         /\ \A i \in IDs : data[i] # None => data'[i] = data[i] /\ owners'[i] = owners[i]
         /\ data[e.id] = None /\ data'[e.id] = e.url /\ owners'[e.id] = e.user
         /\ \A i \in IDs : data'[i] # None => data[i] # None \/ i = e.id
<1>1. PICK n \in Nat : n = 1
  OBVIOUS
<1>2. <<e>> \in [1..n -> Entry] /\ <<e>>[1] = e
  BY <1>1
<1>3. PICK es \in [1..n -> Entry] : SaveBatch(es) /\ es[1] = e
  BY <1>2 DEF Save
<1>4. \A j, k \in 1..n : es[j].id = es[k].id => j = k
  BY <1>1
<1>5. /\ MapsType' /\ ReverseRight' /\ deleted' = deleted
      /\ \A i \in IDs : data'[i] # None <=> owners'[i] # None
      /\ \A i \in IDs : data[i] # None => data'[i] = data[i] /\ owners'[i] = owners[i]
      /\ \A k \in 1..n : /\ es[k] \in Entry
                         /\ data[es[k].id] = None
                         /\ data'[es[k].id] = es[k].url
                         /\ owners'[es[k].id] = es[k].user
      /\ \A i \in IDs : data'[i] # None => data[i] # None \/ \E k \in 1..n : es[k].id = i
  BY <1>3, <1>4, SaveBatchEffect
<1>6. 1 \in 1..n /\ \A k \in 1..n : k = 1
  BY <1>1
<1>7. QED BY <1>3, <1>5, <1>6

\* The call would find the id unused.
LEMMA SaveOutcomeNew ==
  ASSUME NEW e \in Entry, SaveOutcome(<<e>>) = "ok"
  PROVE  data[e.id] = None
<1>1. Objections(<<e>>) = {}
  BY DEF SaveOutcome
<1>2. 1 \in DOMAIN <<e>> /\ <<e>>[1] = e
  OBVIOUS
<1>3. QED BY <1>1, <1>2 DEF Objections

LEMMA RecordOfFacts ==
  ASSUME Types, NEW e \in Entry
  PROVE  /\ RecordOf(e) \in Record /\ RecordOf(e) # Torn
         /\ RecordOf(e).id = e.id /\ RecordOf(e).url = e.url /\ RecordOf(e).user = e.user
         /\ RecordOf(e).uuid = nextUUID /\ RecordOf(e).del = FALSE
BY RecordFacts DEF Types, RecordOf, Record, Entry

LEMMA FlushedFacts ==
  ASSUME Types, NEW i \in IDs, data[i] # None
  PROVE  /\ Flushed(i) \in Record /\ Flushed(i) # Torn
         /\ Flushed(i).id = i /\ Flushed(i).url = data[i] /\ Flushed(i).user = owners[i]
         /\ Flushed(i).uuid = Len(file) + 1 /\ Flushed(i).del = (i \in deleted)
<1>1. Len(file) \in Nat
  BY DEF Types
<1>2. data[i] \in URLs /\ owners[i] \in Owner
  BY DEF Types, MapsType
<1>3. Flushed(i) \in Record
  BY <1>1, <1>2 DEF Flushed, Record
<1>4. QED BY <1>3, RecordFacts DEF Flushed

\* The counter after a load: one more than the largest number in the file.
LEMMA NextUUIDFacts ==
  ASSUME Types, \A l \in Lines : l.uuid \in 1..Len(file) + nextUUID
  PROVE  NextUUID \in Nat /\ 1 <= NextUUID /\ \A l \in Lines : l.uuid < NextUUID
<1> DEFINE T == {m \in Nat : m >= 1 /\ \A l \in Lines : l.uuid < m}
<1>1. Len(file) \in Nat /\ nextUUID \in Nat
  BY DEF Types
<1>2. \A l \in Lines : l.uuid \in Nat
  BY <1>1
<1>3. 1 + Len(file) + nextUUID \in T
  BY <1>1, <1>2
<1>4. PICK m \in T : \A j \in T : m <= j
  <2>1. T \in SUBSET Nat /\ T # {}
    BY <1>3
  <2> HIDE DEF T
  <2>2. QED BY <2>1, LeastNumber
<1>5. m \in 1..1 + Len(file) + nextUUID
  BY <1>1, <1>3, <1>4
<1>6. m = 1 \/ \E l \in Lines : l.uuid = m - 1
  <2>1. SUFFICES ASSUME m # 1 PROVE \E l \in Lines : l.uuid = m - 1
    OBVIOUS
  <2>2. m - 1 \notin T
    BY <1>4
  <2>3. m - 1 \in Nat /\ m - 1 >= 1
    BY <1>4, <2>1
  <2>4. PICK l \in Lines : ~(l.uuid < m - 1)
    BY <2>2, <2>3
  <2>5. l.uuid < m /\ l.uuid \in Nat
    BY <1>2, <1>4
  <2>6. QED BY <2>3, <2>4, <2>5
<1>7. \E n \in 1..1 + Len(file) + nextUUID :
         /\ \A l \in Lines : l.uuid < n
         /\ n = 1 \/ \E l \in Lines : l.uuid = n - 1
  BY <1>4, <1>5, <1>6
<1>8. /\ NextUUID \in 1..1 + Len(file) + nextUUID
      /\ \A l \in Lines : l.uuid < NextUUID
  BY <1>7 DEF NextUUID
<1>9. QED BY <1>1, <1>8

\* What a load makes of a file whose lines tell one story.
LEMMA LoadEffect ==
  ASSUME Types, OneStory, Whole, Load, file' = file
  PROVE  /\ MapsType' /\ ReverseRight'
         /\ \A i \in IDs : data'[i] # None <=> owners'[i] # None
         /\ Agree' /\ WrittenBut({})'
         /\ nextUUID' = NextUUID
<1> DEFINE withID(i)  == {k \in DOMAIN file : file[k].id = i}
           withURL(u) == {k \in DOMAIN file : file[k].url = u}
<1>1. /\ data' = [i \in IDs |-> IF withID(i) = {} THEN None
                                ELSE file[LastOf(withID(i))].url]
      /\ owners' = [i \in IDs |-> IF withID(i) = {} THEN None
                                  ELSE file[LastOf(withID(i))].user]
      /\ reverse' = [u \in URLs |-> IF withURL(u) = {} THEN None
                                    ELSE file[LastOf(withURL(u))].id]
      /\ deleted' = {l.id : l \in {m \in Lines : m.del}}
      /\ nextUUID' = NextUUID
  BY DEF Load
<1>2. /\ Len(file) \in Nat /\ DOMAIN file = 1..Len(file)
      /\ \A k \in 1..Len(file) : file[k] \in Lines
      /\ \A l \in Lines : \E k \in 1..Len(file) : file[k] = l
      /\ Lines' = Lines
  BY LinesFacts DEF Types, Lines
<1>3. \A l \in Lines : /\ l \in Record
                       /\ l.id \in IDs /\ l.url \in URLs /\ l.user \in Owner
                       /\ l.url # None /\ l.user # None
  BY LinesFacts, RecordFacts DEF Types
<1>4. ASSUME NEW i \in IDs
      PROVE  \/ /\ \A l \in Lines : l.id # i
                /\ data'[i] = None /\ owners'[i] = None
             \/ \E l \in Lines : l.id = i /\ data'[i] = l.url /\ owners'[i] = l.user
  <2>1. CASE withID(i) = {}
    <3>1. data'[i] = None /\ owners'[i] = None
      BY <1>1, <2>1
    <3>2. \A k \in 1..Len(file) : file[k].id # i
      BY <1>2, <2>1
    <3>3. QED BY <1>2, <3>1, <3>2
  <2>2. CASE withID(i) # {}
    <3>1. LastOf(withID(i)) \in withID(i)
      BY <1>2, <2>2, LastOfSet
    <3>2. data'[i] = file[LastOf(withID(i))].url /\ owners'[i] = file[LastOf(withID(i))].user
      BY <1>1, <2>2
    <3>3. QED BY <1>2, <3>1, <3>2
  <2>3. QED BY <2>1, <2>2
<1>5. ASSUME NEW u \in URLs
      PROVE  reverse'[u] = None \/ \E l \in Lines : l.url = u /\ reverse'[u] = l.id
  <2>1. CASE withURL(u) = {}
    BY <1>1, <2>1
  <2>2. CASE withURL(u) # {}
    <3>1. LastOf(withURL(u)) \in withURL(u)
      BY <1>2, <2>2, LastOfSet
    <3>2. reverse'[u] = file[LastOf(withURL(u))].id
      BY <1>1, <2>2
    <3>3. QED BY <1>2, <3>1, <3>2
  <2>3. QED BY <2>1, <2>2
<1>6. MapsType'
  <2>1. \A i \in IDs : data'[i] \in URLs \cup {None} /\ owners'[i] \in Owner \cup {None}
    BY <1>3, <1>4
  <2>2. \A u \in URLs : reverse'[u] \in IDs \cup {None}
    BY <1>3, <1>5
  <2>3. deleted' \subseteq IDs
    BY <1>1, <1>3
  <2>4. /\ data' = [i \in IDs |-> data'[i]] /\ owners' = [i \in IDs |-> owners'[i]]
        /\ reverse' = [u \in URLs |-> reverse'[u]]
    BY <1>1
  <2>5. QED BY <2>1, <2>2, <2>3, <2>4 DEF MapsType
<1>7. \A i \in IDs : data'[i] # None <=> owners'[i] # None
  BY <1>3, <1>4
<1>8. \A l \in Lines : data'[l.id] = l.url /\ owners'[l.id] = l.user
  BY <1>3, <1>4 DEF OneStory
<1>9. Agree'
  BY <1>1, <1>2, <1>8 DEF Agree
<1>10. WrittenBut({})'
  BY <1>2, <1>4 DEF WrittenBut
<1>11. ReverseRight'
  BY <1>3, <1>5, <1>8 DEF ReverseRight
<1>12. QED BY <1>1, <1>6, <1>7, <1>9, <1>10, <1>11

----------------------------------------------------------------------------
(* What the steps have in common                                           *)

\* A batch is a sequence, and the links of its entries are links.
LEMMA BatchFacts ==
  ASSUME NEW n \in Nat, NEW es \in BatchesOf(n)
  PROVE  /\ es \in [1..n -> Entry] /\ Len(es) = n
         /\ \A j, k \in 1..n : es[j].id = es[k].id => j = k
         /\ LinksOf(es) \subseteq Link
         /\ \A l \in LinksOf(es) : \E k \in 1..n : l.id = es[k].id /\ l.url = es[k].url
<1>1. /\ es \in [1..n -> Entry]
      /\ \A j, k \in 1..n : es[j].id = es[k].id => j = k
  BY DEF BatchesOf
<1>2. Len(es) = n
  BY <1>1
<1>3. \A k \in 1..n : es[k].id \in IDs /\ es[k].url \in URLs
  BY <1>1 DEF Entry
<1>4. /\ LinksOf(es) \subseteq Link
      /\ \A l \in LinksOf(es) : \E k \in 1..n : l.id = es[k].id /\ l.url = es[k].url
  BY <1>1, <1>3 DEF LinksOf, Link
<1>5. QED BY <1>1, <1>2, <1>4

LEMMA OneLink ==
  ASSUME NEW e \in Entry
  PROVE  LinksOf(<<e>>) = {[id |-> e.id, url |-> e.url]} /\ LinksOf(<<e>>) \subseteq Link
<1>1. DOMAIN <<e>> = {1} /\ <<e>>[1] = e
  OBVIOUS
<1>2. LinksOf(<<e>>) = {[id |-> e.id, url |-> e.url]}
  BY <1>1 DEF LinksOf
<1>3. QED BY <1>2 DEF Link, Entry

\* A step that leaves the maps alone
LEMMA SameMaps ==
  ASSUME Types, UNCHANGED repoVars
  PROVE  /\ MapsType' /\ (ReverseRight => ReverseRight')
         /\ \A i \in IDs : data'[i] # None <=> owners'[i] # None
         /\ data' = data /\ owners' = owners /\ deleted' = deleted
BY DEF Types, MapsType, ReverseRight, repoVars

\* A step that leaves the lines alone as well, but for an unterminated one
LEMMA SameLines ==
  ASSUME UNCHANGED repoVars, Lines' = Lines
  PROVE  /\ OneStory => OneStory'
         /\ Agree => Agree'
         /\ \A S : WrittenBut(S) => (\A i \in IDs : data'[i] # None =>
                                       i \in S \/ \E l \in Lines' : l.id = i)
BY DEF OneStory, Agree, WrittenBut, repoVars

\* An unterminated line is no line.
LEMMA TornEffect ==
  ASSUME file \in Seq(Record \cup {Torn}),
         file' = file \/ file' = Append(file, Torn) \/ file' = Extend(Torn)
  PROVE  /\ Lines' = Lines
         /\ file' \in Seq(Record \cup {Torn})
         /\ file' = file \/ file' = Append(file, Torn)
         /\ Len(file') \in Nat /\ Len(file) <= Len(file')
<1>1. Torn \in Record \cup {Torn}
  OBVIOUS
<1>2. file' = file \/ file' = Append(file, Torn)
  BY <1>1, ExtendEffect
<1>3. Torn \notin Lines'
  BY DEF Lines
<1>4. CASE file' = file
  BY <1>4 DEF Lines
<1>5. CASE file' = Append(file, Torn)
  <2>1. /\ file' \in Seq(Record \cup {Torn}) /\ Len(file') = Len(file) + 1
        /\ Lines \subseteq Lines' /\ \A l \in Lines' : l \in Lines \/ l = Torn
    BY <1>1, <1>5, AppendEffect
  <2>2. \A l \in Lines' : l \in Lines
    BY <1>3, <2>1
  <2>3. Lines' = Lines
    BY <2>1, <2>2
  <2>4. Len(file) \in Nat
    OBVIOUS
  <2>5. QED BY <1>5, <2>1, <2>3, <2>4
<1>6. QED BY <1>2, <1>4, <1>5

\* A line with a number of its own keeps the numbers distinct, and so does a torn one.
LEMMA UUIDsAppend ==
  ASSUME file \in Seq(Record \cup {Torn}), NEW rec \in Record \cup {Torn},
         file' = file \/ file' = Append(file, rec),
         UUIDsDistinct,
         rec # Torn => \A l \in Lines : l.uuid # rec.uuid
  PROVE  UUIDsDistinct'
<1>1. CASE file' = file
  BY <1>1 DEF UUIDsDistinct
<1>2. CASE file' = Append(file, rec)
  <2>1. /\ DOMAIN file' = 1..Len(file) + 1
        /\ \A k \in 1..Len(file) : file'[k] = file[k]
        /\ file'[Len(file) + 1] = rec
    BY <1>2, AppendEffect
  <2>2. /\ Len(file) \in Nat /\ DOMAIN file = 1..Len(file)
        /\ \A k \in 1..Len(file) : file[k] # Torn => file[k] \in Lines
    BY LinesFacts
  <2>3. SUFFICES ASSUME NEW j \in 1..Len(file) + 1, NEW k \in 1..Len(file) + 1,
                        j # k, Torn # file'[j], Torn # file'[k]
                 PROVE  file'[j].uuid # file'[k].uuid
    BY <2>1 DEF UUIDsDistinct
  <2>4. CASE j \in 1..Len(file) /\ k \in 1..Len(file)
    BY <2>1, <2>2, <2>3, <2>4 DEF UUIDsDistinct
  <2>5. CASE j = Len(file) + 1
    <3>1. k \in 1..Len(file)
      BY <2>2, <2>3, <2>5
    <3>2. QED BY <2>1, <2>2, <2>3, <2>5, <3>1
  <2>6. CASE k = Len(file) + 1
    <3>1. j \in 1..Len(file)
      BY <2>2, <2>3, <2>6
    <3>2. QED BY <2>1, <2>2, <2>3, <2>6, <3>1
  <2>7. QED BY <2>2, <2>4, <2>5, <2>6
<1>3. QED BY <1>1, <1>2

\* Numbers of existing lines, and the counter, when the server is ready for a call
LEMMA ReadyFacts ==
  ASSUME IInv, Ready
  PROVE  /\ server = "up" /\ flush = "no" /\ left = {} /\ pending = {}
         /\ ReverseRight /\ OneStory /\ Agree
         /\ disk = "good" => WrittenBut({}) /\ Whole /\ \A l \in acked : OnDisk(l)
         /\ disk # "lost" => \A l \in acked : Resolves(l)
         /\ IsFiniteSet(Known) /\ Cardinality(Known) \in Nat /\ nextUUID \in Nat
         /\ Cardinality(Known) < nextUUID
         /\ \A l \in Lines : l.uuid \in Nat /\ 1 <= l.uuid /\ l.uuid < nextUUID
         /\ UUIDsDistinct
<1>1. server = "up" /\ flush = "no" /\ left = {} /\ pending = {}
  BY DEF Ready, IInv, Rewriting
<1>2. ReverseRight /\ OneStory /\ Agree
  BY <1>1 DEF IInv, Contents
<1>3. /\ disk = "good" => WrittenBut({}) /\ Whole /\ \A l \in acked : OnDisk(l)
      /\ disk # "lost" => \A l \in acked : Resolves(l)
  BY <1>1 DEF IInv, Durable
<1>4. nextUUID \in Nat
  BY DEF IInv, Types
<1>5. /\ UUIDsDistinct
      /\ \A l \in Lines : l.uuid \in 1..Len(file) + nextUUID
      /\ IsFiniteSet(Known) /\ Cardinality(Known) < nextUUID
      /\ \A l \in Lines : l.uuid < nextUUID
  BY <1>1 DEF IInv, Numbered
<1>6. Cardinality(Known) \in Nat
  BY <1>5, FS_CardinalityType
<1>7. QED BY <1>1, <1>2, <1>3, <1>4, <1>5, <1>6

\* A set grows by no more than what is added to it.
LEMMA GrowsBy ==
  ASSUME NEW S, IsFiniteSet(S), NEW T, IsFiniteSet(T), NEW U \in SUBSET (S \cup T)
  PROVE  /\ IsFiniteSet(U) /\ Cardinality(U) \in Nat
         /\ Cardinality(U) <= Cardinality(S) + Cardinality(T)
<1>1. /\ IsFiniteSet(S \cup T)
      /\ Cardinality(S \cup T) = Cardinality(S) + Cardinality(T) - Cardinality(S \cap T)
  BY FS_Union
<1>2. IsFiniteSet(S \cap T)
  BY FS_Intersection
<1>3. IsFiniteSet(U) /\ Cardinality(U) <= Cardinality(S \cup T)
  BY <1>1, FS_Subset
<1>4. /\ Cardinality(S) \in Nat /\ Cardinality(T) \in Nat /\ Cardinality(U) \in Nat
      /\ Cardinality(S \cap T) \in Nat /\ Cardinality(S \cup T) \in Nat
  BY <1>1, <1>2, <1>3, FS_CardinalityType
<1>5. QED BY <1>1, <1>3, <1>4

\* The process has ended, or failed to start.
LEMMA NotUp ==
  ASSUME Types', server' # "up", flush' = "no", left' = {}, pending' = {},
         server' # "clean",
         OneStory', ReverseRight',
         disk' # "behind",
         disk' = "good" => Whole' /\ \A l \in acked' : OnDisk(l)',
         UUIDsDistinct', \A l \in Lines' : l.uuid \in 1..Len(file') + nextUUID'
  PROVE  IInv'
<1>1. Contents'
  BY DEF Contents
<1>2. Rewriting'
  BY DEF Rewriting
<1>3. Durable'
  BY DEF Durable
<1>4. Numbered'
  BY DEF Numbered
<1>5. QED BY <1>1, <1>2, <1>3, <1>4 DEF IInv

----------------------------------------------------------------------------
(* Appending                                                               *)

\* What a new link's line does to the lines, whether or not the maps follow
LEMMA NewLine ==
  ASSUME IInv, Ready, NEW e \in Entry, data[e.id] = None, file' = Extend(RecordOf(e))
  PROVE  /\ file' \in Seq(Record \cup {Torn}) /\ Lines \subseteq Lines'
         /\ \A l \in Lines' : l \in Lines \/ l = RecordOf(e)
         /\ \A l \in Lines : l.id # e.id
         /\ OneStory' /\ UUIDsDistinct'
         /\ \A l \in Lines' : l \in Record /\ l.uuid \in 1..Len(file') + nextUUID
         /\ \A l \in Lines' : l.uuid <= nextUUID
         /\ Whole => Whole' /\ RecordOf(e) \in Lines'
<1> DEFINE rec == RecordOf(e)
<1>1. /\ Types /\ file \in Seq(Record \cup {Torn})
      /\ rec \in Record /\ rec # Torn
      /\ rec.id = e.id /\ rec.url = e.url /\ rec.user = e.user /\ rec.uuid = nextUUID
  BY RecordOfFacts DEF IInv, Types
<1> HIDE DEF rec
<1>2. /\ file' = file \/ file' = Append(file, rec)
      /\ file' \in Seq(Record \cup {Torn}) /\ Lines \subseteq Lines'
      /\ \A l \in Lines' : l \in Lines \/ l = rec
      /\ Whole => Whole' /\ rec \in Lines'
  BY <1>1, ExtendEffect DEF rec
<1>3. /\ OneStory /\ Agree /\ UUIDsDistinct
      /\ nextUUID \in Nat /\ 1 <= nextUUID
      /\ \A l \in Lines : l.uuid \in Nat /\ 1 <= l.uuid /\ l.uuid < nextUUID
  BY ReadyFacts
<1>4. \A l \in Lines : l \in Record /\ l.url # None
  BY <1>1, LinesFacts, RecordFacts
<1>5. \A l \in Lines : l.id # e.id
  BY <1>3, <1>4 DEF Agree
<1>6. OneStory'
  BY <1>1, <1>2, <1>3, <1>5 DEF OneStory
<1>7. UUIDsDistinct'
  <2>1. \A l \in Lines : l.uuid # rec.uuid
    BY <1>1, <1>3
  <2>2. QED BY <1>1, <1>2, <1>3, <2>1, UUIDsAppend
<1>8. \A l \in Lines' : l \in Record /\ l.uuid \in Nat /\ 1 <= l.uuid /\ l.uuid <= nextUUID
  BY <1>1, <1>2, <1>3, <1>4
<1>9. Len(file') \in Nat
  BY <1>2
<1>10. \A l \in Lines' : l.uuid \in 1..Len(file') + nextUUID
  BY <1>3, <1>8, <1>9
<1>11. QED BY <1>2, <1>5, <1>6, <1>7, <1>8, <1>10 DEF rec

LEMMA FileSaveStep ==
  ASSUME IInv, NEW e \in Entry, FileSave(e)
  PROVE  IInv'
<1> DEFINE rec == RecordOf(e)
           link == [id |-> e.id, url |-> e.url]
<1>1. /\ Ready /\ Types /\ Save(e)
      /\ file' = Extend(rec) /\ nextUUID' = nextUUID + 1
      /\ acked' = acked \cup LinksOf(<<e>>)
      /\ flush' = flush /\ left' = left /\ pending' = pending
      /\ server' = server /\ disk' = disk
  BY DEF FileSave, IInv
<1>2. /\ server = "up" /\ flush = "no" /\ left = {} /\ pending = {}
      /\ ReverseRight /\ OneStory /\ Agree
      /\ disk = "good" => WrittenBut({}) /\ Whole /\ \A l \in acked : OnDisk(l)
      /\ disk # "lost" => \A l \in acked : Resolves(l)
      /\ IsFiniteSet(Known) /\ Cardinality(Known) \in Nat /\ nextUUID \in Nat
      /\ Cardinality(Known) < nextUUID
  BY <1>1, ReadyFacts
<1>3. /\ MapsType' /\ ReverseRight' /\ deleted' = deleted
      /\ \A i \in IDs : data'[i] # None <=> owners'[i] # None
      /\ \A i \in IDs : data[i] # None => data'[i] = data[i] /\ owners'[i] = owners[i]
      /\ data[e.id] = None /\ data'[e.id] = e.url /\ owners'[e.id] = e.user
      /\ \A i \in IDs : data'[i] # None => data[i] # None \/ i = e.id
  BY <1>1, <1>2, SaveEffect
<1>4. /\ rec.id = e.id /\ rec.url = e.url /\ rec.user = e.user /\ rec.del = FALSE
  BY <1>1, RecordOfFacts
<1>5. /\ file' \in Seq(Record \cup {Torn}) /\ Lines \subseteq Lines'
      /\ \A l \in Lines' : l \in Lines \/ l = rec
      /\ OneStory' /\ UUIDsDistinct'
      /\ \A l \in Lines' : l \in Record /\ l.uuid \in 1..Len(file') + nextUUID
      /\ \A l \in Lines' : l.uuid <= nextUUID
      /\ Whole => Whole' /\ rec \in Lines'
  BY <1>1, <1>3, NewLine
<1>6. /\ acked' = acked \cup {link} /\ link \in Link
      /\ link.id = e.id /\ link.url = e.url
  BY <1>1, OneLink
<1> HIDE DEF rec, link
<1>7. Types'
  BY <1>1, <1>2, <1>3, <1>5, <1>6 DEF Types
<1>8. \A l \in Lines : l \in Record /\ l.id \in IDs /\ l.url # None /\ data[l.id] # None
  BY <1>1, <1>2, LinesFacts, RecordFacts DEF Types, Agree
<1>9. Agree'
  BY <1>2, <1>3, <1>4, <1>5, <1>8 DEF Agree
<1>10. Contents'
  BY <1>3, <1>5, <1>9 DEF Contents
<1>11. Rewriting'
  BY <1>1, <1>2 DEF Rewriting
<1>12. ASSUME disk = "good"
       PROVE  Whole' /\ WrittenBut({})' /\ \A l \in acked' : OnDisk(l)'
  <2>1. Whole' /\ rec \in Lines'
    BY <1>2, <1>5, <1>12
  <2>2. WrittenBut({})'
    BY <1>2, <1>3, <1>4, <1>5, <1>12, <2>1 DEF WrittenBut
  <2>3. \A l \in acked' : OnDisk(l)'
    BY <1>2, <1>4, <1>5, <1>6, <1>12, <2>1 DEF OnDisk
  <2>4. QED BY <2>1, <2>2, <2>3
<1>13. ASSUME disk # "lost"
       PROVE  \A l \in acked' : Resolves(l)'
  <2>1. \A l \in acked : l.id \in IDs /\ l.url # None
    BY <1>1, NoneAssumption DEF Types, Link
  <2>2. \A l \in acked : data'[l.id] = l.url
    BY <1>2, <1>3, <1>13, <2>1 DEF Resolves
  <2>3. QED BY <1>3, <1>6, <2>2 DEF Resolves
<1>14. Durable'
  BY <1>1, <1>2, <1>12, <1>13 DEF Durable
<1>15. Numbered'
  <2>1. Known' \subseteq Known \cup {e.id}
    BY <1>3 DEF Known
  <2>2. IsFiniteSet({e.id}) /\ Cardinality({e.id}) = 1
    BY FS_Singleton
  <2>3. /\ IsFiniteSet(Known') /\ Cardinality(Known') \in Nat
        /\ Cardinality(Known') <= Cardinality(Known) + 1
    BY <1>2, <2>1, <2>2, GrowsBy
  <2>5. Cardinality(Known') < nextUUID'
    BY <1>1, <1>2, <2>3
  <2>6. \A l \in Lines' : l.uuid \in 1..Len(file') + nextUUID' /\ l.uuid < nextUUID'
    <3>1. Len(file') \in Nat
      BY <1>5
    <3>2. \A l \in Lines' : l.uuid \in Nat
      BY <1>5, RecordFacts
    <3>3. QED BY <1>1, <1>2, <1>5, <3>1, <3>2
  <2>7. QED BY <1>1, <1>2, <1>5, <2>3, <2>5, <2>6 DEF Numbered
<1>16. QED BY <1>7, <1>10, <1>11, <1>14, <1>15 DEF IInv

LEMMA FileSaveFailsStep ==
  ASSUME IInv, NEW e \in Entry, FileSaveFails(e)
  PROVE  IInv'
<1>1. /\ Ready /\ Types /\ UNCHANGED repoVars
      /\ nextUUID' = nextUUID /\ flush' = flush /\ left' = left /\ pending' = pending
      /\ server' = server /\ acked' = acked
      /\ \/ file' = file /\ disk' = disk
         \/ file' = Extend(Torn) /\ FallBehind
  BY DEF FileSaveFails, IInv
<1>2. /\ server = "up" /\ flush = "no" /\ left = {} /\ pending = {}
      /\ ReverseRight /\ OneStory /\ Agree
      /\ disk = "good" => WrittenBut({}) /\ Whole /\ \A l \in acked : OnDisk(l)
      /\ disk # "lost" => \A l \in acked : Resolves(l)
      /\ IsFiniteSet(Known) /\ Cardinality(Known) \in Nat /\ nextUUID \in Nat
      /\ Cardinality(Known) < nextUUID
      /\ \A l \in Lines : l.uuid \in Nat /\ 1 <= l.uuid /\ l.uuid < nextUUID
      /\ UUIDsDistinct
  BY <1>1, ReadyFacts
<1>3. /\ MapsType' /\ ReverseRight'
      /\ \A i \in IDs : data'[i] # None <=> owners'[i] # None
      /\ data' = data
  BY <1>1, <1>2, SameMaps
<1>4. /\ Lines' = Lines /\ file' \in Seq(Record \cup {Torn})
      /\ file' = file \/ file' = Append(file, Torn)
      /\ Len(file') \in Nat
  BY <1>1, TornEffect DEF Types
<1>5. /\ disk' \in {"good", "behind", "lost"}
      /\ disk' = "good" => disk = "good" /\ file' = file
      /\ disk' # "lost" => disk # "lost"
  BY <1>1 DEF FallBehind, Types
<1>6. Types'
  BY <1>1, <1>3, <1>4, <1>5 DEF Types
<1>7. Contents'
  BY <1>1, <1>2, <1>3, <1>4, SameLines DEF Contents
<1>8. Rewriting'
  BY <1>1, <1>2 DEF Rewriting
<1>9. Durable'
  <2>1. disk' = "good" => Whole' /\ WrittenBut({})' /\ \A l \in acked' : OnDisk(l)'
    BY <1>1, <1>2, <1>3, <1>4, <1>5 DEF Whole, WrittenBut, OnDisk
  <2>2. disk' # "lost" => \A l \in acked' : Resolves(l)'
    BY <1>1, <1>2, <1>3, <1>5 DEF Resolves
  <2>3. QED BY <1>1, <1>2, <2>1, <2>2 DEF Durable
<1>10. Numbered'
  <2>1. Known' = Known
    BY <1>3 DEF Known
  <2>2. UUIDsDistinct'
    BY <1>1, <1>2, <1>4, UUIDsAppend DEF Types
  <2>3. \A l \in Lines' : l.uuid \in 1..Len(file') + nextUUID' /\ l.uuid < nextUUID'
    BY <1>1, <1>2, <1>4
  <2>4. QED BY <1>1, <1>2, <2>1, <2>2, <2>3 DEF Numbered
<1>11. QED BY <1>6, <1>7, <1>8, <1>9, <1>10 DEF IInv

LEMMA CrashInSaveStep ==
  ASSUME IInv, NEW e \in Entry, CrashInSave(e)
  PROVE  IInv'
<1>1. /\ Ready /\ Types /\ UNCHANGED repoVars
      /\ SaveOutcome(<<e>>) = "ok" /\ file' = Extend(RecordOf(e))
      /\ nextUUID' = nextUUID /\ flush' = flush /\ left' = left /\ pending' = pending
      /\ server' = "down" /\ acked' = acked /\ LoseMaps
  BY DEF CrashInSave, IInv
<1>2. /\ flush = "no" /\ left = {} /\ pending = {}
      /\ ReverseRight
      /\ disk = "good" => Whole /\ \A l \in acked : OnDisk(l)
  BY <1>1, ReadyFacts
<1>3. data[e.id] = None
  BY <1>1, SaveOutcomeNew
<1>4. /\ file' \in Seq(Record \cup {Torn}) /\ Lines \subseteq Lines'
      /\ OneStory' /\ UUIDsDistinct'
      /\ \A l \in Lines' : l.uuid \in 1..Len(file') + nextUUID
      /\ Whole => Whole'
  BY <1>1, <1>3, NewLine
<1>5. /\ MapsType' /\ ReverseRight'
      /\ \A i \in IDs : data'[i] # None <=> owners'[i] # None
  BY <1>1, <1>2, SameMaps
<1>6. disk' \in {"good", "lost"} /\ (disk' = "good" => disk = "good")
  BY <1>1 DEF LoseMaps, Types
<1>7. Types'
  BY <1>1, <1>4, <1>5, <1>6 DEF Types
<1>8. disk' = "good" => Whole' /\ \A l \in acked' : OnDisk(l)'
  BY <1>1, <1>2, <1>4, <1>6 DEF OnDisk
<1>9. QED BY <1>1, <1>2, <1>4, <1>5, <1>6, <1>7, <1>8, NotUp

----------------------------------------------------------------------------
(* Rewriting                                                               *)

\* The ids of a batch are no more than its entries.
LEMMA BatchIds ==
  ASSUME NEW n \in Nat, NEW es \in [1..n -> Entry]
  PROVE  LET T == {es[k].id : k \in 1..n}
         IN  IsFiniteSet(T) /\ Cardinality(T) <= n
<1> DEFINE T == {es[k].id : k \in 1..n}
           f == [k \in 1..n |-> es[k].id]
<1>1. f \in [1..n -> T] /\ \A t \in T : \E k \in 1..n : f[k] = t
  OBVIOUS
<1>2. f \in Surjection(1..n, T)
  BY <1>1 DEF Surjection
<1>3. IsFiniteSet(1..n) /\ Cardinality(1..n) = n
  BY FS_Interval
<1> HIDE DEF T, f
<1>4. IsFiniteSet(T) /\ Cardinality(T) <= n
  BY <1>2, <1>3, FS_Surjection
<1>5. QED BY <1>4 DEF T

\* The maps after a batch: the file, if it is not touched, still agrees, and what
\* resolved resolves.
LEMMA BatchMaps ==
  ASSUME IInv, Ready, NEW n \in Nat, NEW es \in BatchesOf(n), SaveBatch(es),
         nextUUID' = nextUUID + Len(es)
  PROVE  /\ MapsType' /\ ReverseRight' /\ nextUUID' \in Nat
         /\ \A i \in IDs : data'[i] # None <=> owners'[i] # None
         /\ Lines' = Lines => Agree'
         /\ \A p \in LinksOf(es) : data'[p.id] = p.url
         /\ \A l \in acked : disk # "lost" => data'[l.id] = l.url
         /\ IsFiniteSet(Known') /\ Cardinality(Known') < nextUUID'
         /\ nextUUID <= nextUUID'
<1>1. /\ Types /\ Len(es) = n
      /\ \A l \in LinksOf(es) : \E k \in 1..n : l.id = es[k].id /\ l.url = es[k].url
  BY BatchFacts DEF IInv
<1>0. /\ es \in [1..n -> Entry]
        /\ \A j, k \in 1..n : es[j].id = es[k].id => j = k
  BY BatchFacts
<1>2. /\ ReverseRight /\ Agree
      /\ disk # "lost" => \A l \in acked : Resolves(l)
      /\ IsFiniteSet(Known) /\ Cardinality(Known) \in Nat /\ nextUUID \in Nat
      /\ Cardinality(Known) < nextUUID
  BY ReadyFacts
<1>3. /\ MapsType' /\ ReverseRight' /\ deleted' = deleted
      /\ \A i \in IDs : data'[i] # None <=> owners'[i] # None
      /\ \A i \in IDs : data[i] # None => data'[i] = data[i] /\ owners'[i] = owners[i]
      /\ \A k \in 1..n : data'[es[k].id] = es[k].url
      /\ \A i \in IDs : data'[i] # None => data[i] # None \/ \E k \in 1..n : es[k].id = i
  <2>1. Types /\ ReverseRight
    BY <1>1, <1>2
  <2>2. QED BY <1>0, <2>1, SaveBatchEffect
<1>4. nextUUID' = nextUUID + n
  BY <1>1
<1>5. Lines' = Lines => Agree'
  <2>1. \A l \in Lines : l.id \in IDs /\ data[l.id] # None
    BY <1>1, <1>2, LinesFacts, RecordFacts DEF Types, Agree
  <2>2. QED BY <1>2, <1>3, <2>1 DEF Agree
<1>6. \A p \in LinksOf(es) : data'[p.id] = p.url
  BY <1>1, <1>3
<1>7. \A l \in acked : disk # "lost" => data'[l.id] = l.url
  <2>1. \A l \in acked : l.id \in IDs /\ l.url # None
    BY <1>1, NoneAssumption DEF Types, Link
  <2>2. QED BY <1>2, <1>3, <2>1 DEF Resolves
<1>8. IsFiniteSet(Known') /\ Cardinality(Known') < nextUUID'
  <2> DEFINE T == {es[k].id : k \in 1..n}
  <2>1. Known' \subseteq Known \cup T
    BY <1>3 DEF Known
  <2>2. IsFiniteSet(T) /\ Cardinality(T) <= n
    BY <1>0, BatchIds
  <2> HIDE DEF T
  <2>3. /\ IsFiniteSet(Known') /\ Cardinality(Known') \in Nat
        /\ Cardinality(Known') <= Cardinality(Known) + Cardinality(T)
    BY <1>2, <2>1, <2>2, GrowsBy
  <2>4. Cardinality(T) \in Nat
    BY <2>2, FS_CardinalityType
  <2>5. QED BY <1>2, <1>4, <2>2, <2>3, <2>4
<1>9. nextUUID' \in Nat /\ nextUUID <= nextUUID'
  BY <1>2, <1>4
<1>10. QED BY <1>3, <1>5, <1>6, <1>7, <1>8, <1>9

\* The beginning of a rewrite
LEMMA TruncateStep ==
  ASSUME MapsType', ReverseRight', \A i \in IDs : data'[i] # None <=> owners'[i] # None,
         nextUUID' \in Nat, server' = "up", pending' \subseteq Link, acked' \subseteq Link,
         flush' \in {"batch", "close"}, file' = <<>>, left' = Known',
         disk' \in {"behind", "lost"},
         \A p \in pending' : data'[p.id] = p.url,
         disk' # "lost" => \A l \in acked' : data'[l.id] = l.url,
         IsFiniteSet(Known'), Cardinality(Known') < nextUUID'
  PROVE  IInv'
<1>1. /\ file' \in Seq(Record \cup {Torn}) /\ Len(file') = 0 /\ DOMAIN file' = {}
      /\ Lines' = {} /\ Whole'
  BY EmptyFile
<1>2. /\ left' \subseteq IDs /\ \A i \in left' : data'[i] # None
      /\ \A i \in IDs : data'[i] # None => i \in left'
  BY DEF Known
<1>3. Types'
  BY <1>1, <1>2 DEF Types
<1>4. Contents'
  BY <1>1 DEF Contents, OneStory, Agree
<1>5. Exact'
  BY <1>1, <1>2 DEF Exact, WrittenBut
<1>6. Rewriting'
  BY <1>1, <1>2, <1>5 DEF Rewriting
<1>7. Durable'
  BY DEF Durable, Resolves
<1>8. Numbered'
  <2>1. UUIDsDistinct'
    BY <1>1 DEF UUIDsDistinct
  <2>2. Cardinality(Known') \in Nat
    BY FS_CardinalityType
  <2>3. Len(file') + Cardinality(left') < nextUUID'
    BY <1>1, <2>2
  <2>4. QED BY <1>1, <2>1, <2>3 DEF Numbered
<1>9. QED BY <1>3, <1>4, <1>6, <1>7, <1>8 DEF IInv

LEMMA FileSaveBatchStep ==
  ASSUME IInv, NEW n \in 1..MaxBatch, NEW es \in BatchesOf(n), FileSaveBatch(es)
  PROVE  IInv'
<1>1. /\ Ready /\ Types /\ SaveBatch(es) /\ nextUUID' = nextUUID + Len(es)
      /\ flush' = "batch" /\ file' = <<>> /\ left' = Known' /\ FallBehind
      /\ pending' = LinksOf(es) /\ server' = server /\ acked' = acked
  BY DEF FileSaveBatch, Truncate, Known, IInv
<1>2. n \in Nat
  BY MaxBatchAssumption
<1>3. LinksOf(es) \subseteq Link
  BY <1>2, BatchFacts
<1>4. /\ MapsType' /\ ReverseRight' /\ nextUUID' \in Nat
      /\ \A i \in IDs : data'[i] # None <=> owners'[i] # None
      /\ \A p \in LinksOf(es) : data'[p.id] = p.url
      /\ \A l \in acked : disk # "lost" => data'[l.id] = l.url
      /\ IsFiniteSet(Known') /\ Cardinality(Known') < nextUUID'
  BY <1>1, <1>2, BatchMaps
<1>5. disk' \in {"behind", "lost"} /\ (disk' # "lost" => disk # "lost")
  BY <1>1 DEF FallBehind, Types
<1>6. server' = "up" /\ acked' \subseteq Link
  BY <1>1 DEF Ready, Types
<1>7. disk' # "lost" => \A l \in acked' : data'[l.id] = l.url
  BY <1>1, <1>4, <1>5
<1>8. QED BY <1>1, <1>3, <1>4, <1>5, <1>6, <1>7, TruncateStep

LEMMA FileSaveBatchFailsStep ==
  ASSUME IInv, NEW n \in 1..MaxBatch, NEW es \in BatchesOf(n), FileSaveBatchFails(es)
  PROVE  IInv'
<1>1. /\ Ready /\ Types /\ SaveBatch(es) /\ nextUUID' = nextUUID + Len(es)
      /\ FallBehind /\ file' = file /\ flush' = flush /\ left' = left
      /\ pending' = pending /\ server' = server /\ acked' = acked
  BY DEF FileSaveBatchFails, IInv
<1>2. n \in Nat
  BY MaxBatchAssumption
<1>3. Lines' = Lines
  BY <1>1 DEF Lines
<1>4. /\ MapsType' /\ ReverseRight' /\ nextUUID' \in Nat
      /\ \A i \in IDs : data'[i] # None <=> owners'[i] # None
      /\ Agree'
      /\ \A l \in acked : disk # "lost" => data'[l.id] = l.url
      /\ IsFiniteSet(Known') /\ Cardinality(Known') < nextUUID'
      /\ nextUUID <= nextUUID'
  BY <1>1, <1>2, <1>3, BatchMaps
<1>5. disk' \in {"behind", "lost"} /\ (disk' # "lost" => disk # "lost")
  BY <1>1 DEF FallBehind, Types
<1>6. /\ server = "up" /\ flush = "no" /\ left = {} /\ pending = {} /\ OneStory
      /\ nextUUID \in Nat
      /\ \A l \in Lines : l.uuid \in Nat /\ 1 <= l.uuid /\ l.uuid < nextUUID
      /\ UUIDsDistinct
  BY <1>1, ReadyFacts
<1>7. Types'
  BY <1>1, <1>4, <1>5 DEF Types
<1>8. Contents'
  BY <1>3, <1>4, <1>6 DEF Contents, OneStory
<1>9. Rewriting'
  BY <1>1, <1>6 DEF Rewriting
<1>10. Durable'
  BY <1>1, <1>4, <1>5, <1>6 DEF Durable, Resolves
<1>11. Numbered'
  <2>1. Len(file') \in Nat /\ UUIDsDistinct'
    BY <1>1, <1>6 DEF Types, UUIDsDistinct
  <2>2. \A l \in Lines' : l.uuid \in 1..Len(file') + nextUUID' /\ l.uuid < nextUUID'
    BY <1>3, <1>4, <1>6, <2>1
  <2>3. QED BY <1>1, <1>4, <1>6, <2>1, <2>2 DEF Numbered
<1>12. QED BY <1>7, <1>8, <1>9, <1>10, <1>11 DEF IInv

LEMMA FileCloseStep ==
  ASSUME IInv, FileClose
  PROVE  IInv'
<1>1. /\ Ready /\ Types /\ UNCHANGED repoVars
      /\ flush' = "close" /\ file' = <<>> /\ FallBehind
      /\ left' = Known
      /\ nextUUID' = nextUUID /\ pending' = pending /\ server' = server /\ acked' = acked
  BY DEF FileClose, Truncate, Known, IInv
<1>2. /\ server = "up" /\ pending = {} /\ ReverseRight
      /\ disk # "lost" => \A l \in acked : Resolves(l)
      /\ IsFiniteSet(Known) /\ Cardinality(Known) < nextUUID /\ nextUUID \in Nat
  BY <1>1, ReadyFacts
<1>3. /\ MapsType' /\ ReverseRight'
      /\ \A i \in IDs : data'[i] # None <=> owners'[i] # None
      /\ data' = data
  BY <1>1, <1>2, SameMaps
<1>4. Known' = Known
  BY <1>3 DEF Known
<1>5. disk' \in {"behind", "lost"} /\ (disk' # "lost" => disk # "lost")
  BY <1>1 DEF FallBehind, Types
<1>6. acked' \subseteq Link /\ pending' = {} /\ pending' \subseteq Link
  BY <1>1, <1>2 DEF Types
<1>7. disk' # "lost" => \A l \in acked' : data'[l.id] = l.url
  BY <1>1, <1>2, <1>3, <1>5 DEF Resolves
<1>8. QED BY <1>1, <1>2, <1>3, <1>4, <1>5, <1>6, <1>7, TruncateStep

\* What is known in the middle of a rewrite
LEMMA FlushFacts ==
  ASSUME IInv, flush # "no"
  PROVE  /\ Types /\ server = "up" /\ disk \in {"behind", "lost"}
         /\ ReverseRight /\ OneStory /\ Agree /\ Exact
         /\ \A i \in left : i \in IDs /\ data[i] # None
         /\ \A l \in Lines : l.id \notin left
         /\ \A p \in pending : data[p.id] = p.url
         /\ disk # "lost" => \A l \in acked : Resolves(l)
         /\ IsFiniteSet(Known) /\ Cardinality(Known) < nextUUID /\ nextUUID \in Nat
         /\ UUIDsDistinct
         /\ \A k \in DOMAIN file : file[k].uuid = k
         /\ \A l \in Lines : l.uuid \in 1..Len(file)
         /\ IsFiniteSet(left) /\ Cardinality(left) \in Nat
         /\ Len(file) \in Nat /\ Len(file) + Cardinality(left) < nextUUID
<1>1. /\ Types /\ server = "up" /\ disk \in {"behind", "lost"} /\ Exact
      /\ \A i \in left : i \in IDs /\ data[i] # None
      /\ \A l \in Lines : l.id \notin left
      /\ \A p \in pending : data[p.id] = p.url
  BY DEF IInv, Rewriting, Types
<1>2. ReverseRight /\ OneStory /\ Agree
  BY <1>1 DEF IInv, Contents
<1>3. disk # "lost" => \A l \in acked : Resolves(l)
  BY <1>1 DEF IInv, Durable
<1>4. /\ IsFiniteSet(Known) /\ Cardinality(Known) < nextUUID
      /\ UUIDsDistinct
      /\ \A k \in DOMAIN file : file[k].uuid = k
      /\ IsFiniteSet(left)
      /\ Len(file) + Cardinality(left) < nextUUID
  BY <1>1 DEF IInv, Numbered
<1>5. nextUUID \in Nat /\ Cardinality(left) \in Nat /\ Len(file) \in Nat
  BY <1>1, <1>4, FS_CardinalityType DEF Types
<1>6. \A l \in Lines : l.uuid \in 1..Len(file)
  BY <1>1, <1>4, LinesFacts DEF Types
<1>7. QED BY <1>1, <1>2, <1>3, <1>4, <1>5, <1>6

LEMMA FlushLineStep ==
  ASSUME IInv, NEW i \in IDs, FlushLine(i)
  PROVE  IInv'
<1> DEFINE rec == Flushed(i)
<1>1. /\ flush # "no" /\ i \in left /\ UNCHANGED repoVars
      /\ file' = Append(file, rec) /\ left' = left \ {i}
      /\ nextUUID' = nextUUID /\ flush' = flush /\ pending' = pending
      /\ server' = server /\ acked' = acked /\ disk' = disk
  BY DEF FlushLine
<1>2. /\ Types /\ server = "up" /\ disk \in {"behind", "lost"}
      /\ ReverseRight /\ OneStory /\ Agree /\ Exact
      /\ \A j \in left : j \in IDs /\ data[j] # None
      /\ \A l \in Lines : l.id \notin left
      /\ \A p \in pending : data[p.id] = p.url
      /\ disk # "lost" => \A l \in acked : Resolves(l)
      /\ IsFiniteSet(Known) /\ Cardinality(Known) < nextUUID /\ nextUUID \in Nat
      /\ UUIDsDistinct
      /\ \A k \in DOMAIN file : file[k].uuid = k
      /\ \A l \in Lines : l.uuid \in 1..Len(file)
      /\ IsFiniteSet(left) /\ Cardinality(left) \in Nat
      /\ Len(file) \in Nat /\ Len(file) + Cardinality(left) < nextUUID
  BY <1>1, FlushFacts
<1>3. /\ rec \in Record /\ rec # Torn
      /\ rec.id = i /\ rec.url = data[i] /\ rec.user = owners[i]
      /\ rec.uuid = Len(file) + 1 /\ rec.del = (i \in deleted)
  BY <1>1, <1>2, FlushedFacts
<1> HIDE DEF rec
<1>4. /\ file' \in Seq(Record \cup {Torn}) /\ Len(file') = Len(file) + 1
      /\ DOMAIN file' = 1..Len(file) + 1
      /\ \A k \in 1..Len(file) : file'[k] = file[k]
      /\ file'[Len(file) + 1] = rec
      /\ Lines \subseteq Lines'
      /\ \A l \in Lines' : l \in Lines \/ l = rec
      /\ rec \in Lines'
      /\ Whole => Whole'
  BY <1>1, <1>2, <1>3, AppendEffect DEF Types
<1>5. /\ MapsType' /\ ReverseRight'
      /\ \A j \in IDs : data'[j] # None <=> owners'[j] # None
      /\ data' = data /\ owners' = owners /\ deleted' = deleted
  BY <1>1, <1>2, SameMaps
<1>6. DOMAIN file = 1..Len(file) /\ \A k \in 1..Len(file) : file[k] \in Lines
  BY <1>2, LinesFacts DEF Types, Exact
<1>7. Types'
  BY <1>1, <1>2, <1>4, <1>5 DEF Types
<1>8. Contents'
  <2>1. OneStory'
    BY <1>1, <1>2, <1>3, <1>4 DEF OneStory
  <2>2. Agree'
    BY <1>2, <1>3, <1>4, <1>5 DEF Agree
  <2>3. QED BY <1>5, <2>1, <2>2 DEF Contents
<1>9. Exact'
  <2>1. \A j, k \in DOMAIN file' : file'[j].id = file'[k].id => j = k
    <3>1. SUFFICES ASSUME NEW j \in 1..Len(file) + 1, NEW k \in 1..Len(file) + 1,
                          file'[j].id = file'[k].id
                   PROVE  j = k
      BY <1>4
    <3>2. \A m \in 1..Len(file) : file'[m].id # i
      BY <1>1, <1>2, <1>4, <1>6
    <3>3. CASE j \in 1..Len(file) /\ k \in 1..Len(file)
      BY <1>2, <1>4, <1>6, <3>1, <3>3 DEF Exact
    <3>4. CASE j = Len(file) + 1 \/ k = Len(file) + 1
      BY <1>2, <1>3, <1>4, <3>1, <3>2, <3>4
    <3>5. QED BY <1>2, <3>3, <3>4
  <2>2. \A l \in Lines' : l.id \in deleted' => l.del
    BY <1>2, <1>3, <1>4, <1>5 DEF Exact
  <2>3. WrittenBut(left)'
    BY <1>1, <1>2, <1>3, <1>4, <1>5 DEF Exact, WrittenBut
  <2>4. Whole'
    BY <1>2, <1>4 DEF Exact
  <2>5. QED BY <2>1, <2>2, <2>3, <2>4 DEF Exact
<1>10. Rewriting'
  <2>1. \A l \in Lines' : l.id \notin left'
    BY <1>1, <1>2, <1>3, <1>4
  <2>2. (\A j \in left' : data'[j] # None) /\ \A p \in pending' : data'[p.id] = p.url
    BY <1>1, <1>2, <1>5
  <2>3. QED BY <1>1, <1>2, <1>9, <2>1, <2>2 DEF Rewriting
<1>11. Durable'
  BY <1>1, <1>2, <1>5 DEF Durable, Resolves
<1>12. Numbered'
  <2>1. Known' = Known
    BY <1>5 DEF Known
  <2>2. UUIDsDistinct'
    <3>1. \A l \in Lines : l.uuid # rec.uuid
      BY <1>2, <1>3
    <3>2. QED BY <1>1, <1>2, <1>3, <3>1, UUIDsAppend DEF Types
  <2>3. \A k \in DOMAIN file' : file'[k].uuid = k
    BY <1>2, <1>3, <1>4, <1>6
  <2>4. \A l \in Lines' : l.uuid \in 1..Len(file') + nextUUID'
    BY <1>1, <1>2, <1>3, <1>4
  <2>5. IsFiniteSet(left') /\ Cardinality(left') = Cardinality(left) - 1
    BY <1>1, <1>2, FS_RemoveElement
  <2>6. Len(file') + Cardinality(left') < nextUUID'
    BY <1>1, <1>2, <1>4, <2>5
  <2>7. QED BY <1>1, <1>2, <2>1, <2>2, <2>3, <2>4, <2>5, <2>6 DEF Numbered
<1>13. QED BY <1>7, <1>8, <1>10, <1>11, <1>12 DEF IInv

LEMMA FlushFailsStep ==
  ASSUME IInv, FlushFails
  PROVE  IInv'
<1>1. /\ flush # "no" /\ UNCHANGED repoVars
      /\ file' = file \/ file' = Append(file, Torn)
      /\ flush' = "no" /\ left' = {} /\ pending' = {}
      /\ nextUUID' = nextUUID /\ acked' = acked
      /\ \/ flush = "close" /\ server' = "down" /\ LoseMaps
         \/ server' = server /\ disk' = disk
  BY DEF FlushFails
<1>2. /\ Types /\ server = "up" /\ disk \in {"behind", "lost"}
      /\ ReverseRight /\ OneStory /\ Agree
      /\ disk # "lost" => \A l \in acked : Resolves(l)
      /\ IsFiniteSet(Known) /\ Cardinality(Known) < nextUUID /\ nextUUID \in Nat
      /\ UUIDsDistinct
      /\ \A l \in Lines : l.uuid \in 1..Len(file)
      /\ Cardinality(left) \in Nat
      /\ Len(file) \in Nat /\ Len(file) + Cardinality(left) < nextUUID
  BY <1>1, FlushFacts
<1>3. /\ MapsType' /\ ReverseRight'
      /\ \A i \in IDs : data'[i] # None <=> owners'[i] # None
      /\ data' = data
  BY <1>1, <1>2, SameMaps
<1>4. /\ Lines' = Lines /\ file' \in Seq(Record \cup {Torn})
      /\ Len(file') \in Nat
  BY <1>1, <1>2, TornEffect DEF Types
<1>5. UUIDsDistinct'
  BY <1>1, <1>2, UUIDsAppend DEF Types
<1>6. \A l \in Lines' : l.uuid \in 1..Len(file') + nextUUID' /\ l.uuid < nextUUID'
  BY <1>1, <1>2, <1>4
<1>7. CASE server' = "down" /\ LoseMaps
  <2>1. disk' = "lost"
    BY <1>2, <1>7 DEF LoseMaps
  <2>2. OneStory'
    BY <1>2, <1>4 DEF OneStory
  <2>3. Types'
    BY <1>1, <1>2, <1>3, <1>4, <1>7, <2>1 DEF Types
  <2>4. QED BY <1>1, <1>3, <1>5, <1>6, <1>7, <2>1, <2>2, <2>3, NotUp
<1>8. CASE server' = server /\ disk' = disk
  <2>1. Types'
    BY <1>1, <1>2, <1>3, <1>4, <1>8 DEF Types
  <2>2. Contents'
    BY <1>1, <1>2, <1>3, <1>4, <1>8, SameLines DEF Contents
  <2>3. Rewriting'
    BY <1>1, <1>2, <1>8 DEF Rewriting
  <2>4. Durable'
    BY <1>1, <1>2, <1>3, <1>8 DEF Durable, Resolves
  <2>5. Known' = Known
    BY <1>3 DEF Known
  <2>6. Numbered'
    BY <1>1, <1>2, <1>5, <1>6, <1>8, <2>5 DEF Numbered
  <2>7. QED BY <2>1, <2>2, <2>3, <2>4, <2>6 DEF IInv
<1>9. QED BY <1>1, <1>7, <1>8

LEMMA FlushDoneStep ==
  ASSUME IInv, FlushDone
  PROVE  IInv'
<1>1. /\ flush # "no" /\ left = {} /\ UNCHANGED repoVars
      /\ flush' = "no" /\ left' = left /\ pending' = {}
      /\ acked' = acked \cup pending
      /\ server' \in {"clean", "up"}
      /\ disk' = IF disk = "behind" THEN "good" ELSE disk
      /\ file' = file /\ nextUUID' = nextUUID
  BY DEF FlushDone
<1>2. /\ Types /\ disk \in {"behind", "lost"}
      /\ ReverseRight /\ OneStory /\ Agree /\ Exact
      /\ \A p \in pending : data[p.id] = p.url
      /\ disk # "lost" => \A l \in acked : Resolves(l)
      /\ IsFiniteSet(Known) /\ Cardinality(Known) < nextUUID /\ nextUUID \in Nat
      /\ UUIDsDistinct
      /\ \A l \in Lines : l.uuid \in 1..Len(file)
      /\ Cardinality(left) \in Nat
      /\ Len(file) \in Nat /\ Len(file) + Cardinality(left) < nextUUID
  BY <1>1, FlushFacts
<1>3. /\ MapsType' /\ ReverseRight'
      /\ \A i \in IDs : data'[i] # None <=> owners'[i] # None
      /\ data' = data /\ deleted' = deleted /\ Lines' = Lines
  BY <1>1, <1>2, SameMaps DEF Lines
<1>4. /\ disk' \in {"good", "lost"} /\ (disk' = "good" => disk = "behind")
  BY <1>1, <1>2
<1>5. Types'
  BY <1>1, <1>2, <1>3, <1>4 DEF Types
<1>6. Contents'
  BY <1>2, <1>3, <1>1, SameLines DEF Contents
<1>7. Exact'
  BY <1>1, <1>2, <1>3 DEF Exact, Whole, WrittenBut
<1>8. Rewriting'
  BY <1>1, <1>7 DEF Rewriting
<1>9. Durable'
  <2>1. disk' # "lost" => \A l \in acked' : data'[l.id] = l.url
    BY <1>1, <1>2, <1>3 DEF Resolves
  <2>2. Whole' /\ WrittenBut({})'
    BY <1>1, <1>7 DEF Exact, WrittenBut
  <2>3. ASSUME disk' # "lost", NEW l \in acked'
        PROVE  OnDisk(l)'
    <3>1. l.id \in IDs /\ l.url # None
      BY <1>5, NoneAssumption DEF Types, Link
    <3>2. data'[l.id] = l.url
      BY <2>1, <2>3
    <3>3. PICK m \in Lines' : m.id = l.id
      BY <2>2, <3>1, <3>2 DEF WrittenBut
    <3>4. m.url = l.url
      BY <1>2, <1>3, <3>2, <3>3 DEF Agree
    <3>5. QED BY <3>3, <3>4 DEF OnDisk
  <2>4. QED BY <1>4, <2>1, <2>2, <2>3 DEF Durable, Resolves
<1>10. Numbered'
  <2>1. Known' = Known
    BY <1>3 DEF Known
  <2>2. UUIDsDistinct'
    BY <1>1, <1>2 DEF UUIDsDistinct
  <2>3. \A l \in Lines' : l.uuid \in 1..Len(file') + nextUUID' /\ l.uuid < nextUUID'
    BY <1>1, <1>2, <1>3
  <2>4. QED BY <1>1, <1>2, <2>1, <2>2, <2>3 DEF Numbered
<1>11. QED BY <1>5, <1>6, <1>8, <1>9, <1>10 DEF IInv

----------------------------------------------------------------------------
(* The other calls, and the life of the process                            *)

LEMMA FileDeleteStep ==
  ASSUME IInv, NEW ids \in SUBSET IDs, NEW u \in Users, FileDeleteUserURLs(ids, u)
  PROVE  IInv'
<1>1. /\ Ready /\ Types
      /\ deleted' = deleted \cup {i \in ids : owners[i] = u}
      /\ data' = data /\ reverse' = reverse /\ owners' = owners
      /\ file' = file /\ nextUUID' = nextUUID /\ flush' = flush /\ left' = left
      /\ pending' = pending /\ server' = server /\ acked' = acked /\ disk' = disk
  BY DEF FileDeleteUserURLs, DeleteUserURLs, diskVars, IInv
<1>2. /\ server = "up" /\ flush = "no" /\ Agree
  BY <1>1, ReadyFacts
<1>3. Lines' = Lines /\ Known' = Known
  BY <1>1 DEF Lines, Known
<1>4. Types'
  BY <1>1 DEF Types, MapsType
<1>5. Contents'
  BY <1>1, <1>2, <1>3 DEF IInv, Contents, ReverseRight, OneStory, Agree
<1>6. Rewriting'
  BY <1>1, <1>2 DEF IInv, Rewriting
<1>7. Durable'
  <2>1. Durable
    BY DEF IInv
  <2>2. QED BY <1>1, <1>3, <2>1 DEF Durable, Whole, OnDisk, WrittenBut, Resolves
<1>8. Numbered'
  <2>1. Numbered
    BY DEF IInv
  <2>2. QED BY <1>1, <1>3, <2>1 DEF Numbered, UUIDsDistinct
<1>9. QED BY <1>4, <1>5, <1>6, <1>7, <1>8 DEF IInv

LEMMA FileLookupStep ==
  ASSUME IInv, NEW u \in URLs, FileLookup(u)
  PROVE  IInv'
<1> DEFINE link == [id |-> reverse[u], url |-> u]
<1>1. /\ Ready /\ Types /\ reverse[u] # None
      /\ acked' = acked \cup {link} /\ UNCHANGED repoVars
      /\ file' = file /\ nextUUID' = nextUUID /\ flush' = flush /\ left' = left
      /\ pending' = pending /\ server' = server /\ disk' = disk
  BY DEF FileLookup, GetByOriginalURL, diskVars, IInv
<1>2. /\ server = "up" /\ flush = "no" /\ left = {} /\ pending = {}
      /\ ReverseRight /\ OneStory /\ Agree
      /\ disk = "good" => WrittenBut({}) /\ Whole /\ \A l \in acked : OnDisk(l)
      /\ disk # "lost" => \A l \in acked : Resolves(l)
  BY <1>1, ReadyFacts
<1>3. /\ MapsType' /\ ReverseRight'
      /\ \A i \in IDs : data'[i] # None <=> owners'[i] # None
      /\ data' = data
  BY <1>1, <1>2, SameMaps
<1>4. Lines' = Lines /\ Known' = Known
  BY <1>1, <1>3 DEF Lines, Known
<1>5. /\ link \in Link /\ link.id = reverse[u] /\ link.url = u
      /\ link.id \in IDs /\ data[link.id] = u /\ u # None
  BY <1>1, <1>2, NoneAssumption DEF Types, MapsType, Link, ReverseRight
<1> HIDE DEF link
<1>6. Types'
  BY <1>1, <1>3, <1>5 DEF Types
<1>7. Contents'
  BY <1>1, <1>2, <1>3, <1>4, SameLines DEF Contents
<1>8. Rewriting'
  BY <1>1, <1>2 DEF Rewriting
<1>9. Durable'
  <2>1. disk' # "lost" => \A l \in acked' : Resolves(l)'
    BY <1>1, <1>2, <1>3, <1>5 DEF Resolves
  <2>2. ASSUME disk = "good"
        PROVE  OnDisk(link)
    <3>1. PICK l \in Lines : l.id = link.id
      BY <1>2, <1>5, <2>2 DEF WrittenBut
    <3>2. l.url = u
      BY <1>2, <1>5, <3>1 DEF Agree
    <3>3. QED BY <1>5, <3>1, <3>2 DEF OnDisk
  <2>3. disk' = "good" => Whole' /\ WrittenBut({})' /\ \A l \in acked' : OnDisk(l)'
    BY <1>1, <1>2, <1>3, <1>4, <2>2 DEF Whole, WrittenBut, OnDisk
  <2>4. QED BY <1>1, <1>2, <2>1, <2>3 DEF Durable
<1>10. Numbered'
  <2>1. Numbered
    BY DEF IInv
  <2>2. QED BY <1>1, <1>4, <2>1 DEF Numbered, UUIDsDistinct
<1>11. QED BY <1>6, <1>7, <1>8, <1>9, <1>10 DEF IInv

\* The process ends; the file stays as it is.
LEMMA EndStep ==
  ASSUME IInv, server = "up", UNCHANGED <<repoVars, file, nextUUID, acked>>,
         server' = "down", flush' = "no", left' = {}, pending' = {}, LoseMaps
  PROVE  IInv'
<1>1. /\ Types /\ ReverseRight /\ OneStory
  BY DEF IInv, Contents
<1>2. /\ MapsType' /\ ReverseRight'
      /\ \A i \in IDs : data'[i] # None <=> owners'[i] # None
  BY <1>1, SameMaps
<1>3. disk' \in {"good", "lost"} /\ (disk' = "good" => disk = "good")
  BY <1>1 DEF LoseMaps, Types
<1>4. Lines' = Lines
  BY DEF Lines
<1>5. Types'
  BY <1>1, <1>2, <1>3 DEF Types
<1>6. OneStory' /\ UUIDsDistinct' /\ \A l \in Lines' : l.uuid \in 1..Len(file') + nextUUID'
  BY <1>1, <1>4 DEF OneStory, IInv, Numbered, UUIDsDistinct
<1>7. disk' = "good" => Whole' /\ \A l \in acked' : OnDisk(l)'
  BY <1>3, <1>4 DEF IInv, Durable, Whole, OnDisk
<1>8. QED BY <1>2, <1>3, <1>5, <1>6, <1>7, NotUp

LEMMA FileCloseFailsStep ==
  ASSUME IInv, FileCloseFails
  PROVE  IInv'
<1>1. /\ Ready /\ UNCHANGED <<repoVars, file, nextUUID, acked>>
      /\ flush' = flush /\ left' = left /\ pending' = pending
      /\ server' = "down" /\ LoseMaps
  BY DEF FileCloseFails, diskVars
<1>2. server = "up" /\ flush = "no" /\ left = {} /\ pending = {}
  BY <1>1, ReadyFacts
<1>3. QED BY <1>1, <1>2, EndStep

LEMMA CrashStep ==
  ASSUME IInv, Crash
  PROVE  IInv'
BY EndStep DEF Crash

\* A start: the maps are made from the file, and agree with it.
LEMMA StartStep ==
  ASSUME IInv, Start
  PROVE  IInv'
<1>1. /\ Types /\ server \in {"down", "clean"}
      /\ file' = file /\ flush' = flush /\ left' = left /\ pending' = pending
      /\ acked' = acked /\ disk' = disk
      /\ \/ Whole /\ Load /\ server' = "up"
         \/ server' = "failed" /\ UNCHANGED repoVars /\ nextUUID' = nextUUID
  BY DEF Start, IInv, Loadable
<1>2. /\ flush = "no" /\ left = {} /\ pending = {}
      /\ disk \in {"good", "lost"}
      /\ ReverseRight /\ OneStory /\ UUIDsDistinct
      /\ \A l \in Lines : l.uuid \in 1..Len(file) + nextUUID
      /\ disk = "good" => Whole /\ \A l \in acked : OnDisk(l)
  BY <1>1 DEF IInv, Rewriting, Contents, Numbered, Durable, Types
<1>3. Lines' = Lines
  BY <1>1 DEF Lines
<1>4. CASE server' = "failed" /\ UNCHANGED repoVars /\ nextUUID' = nextUUID
  <2>1. /\ MapsType' /\ ReverseRight'
        /\ \A i \in IDs : data'[i] # None <=> owners'[i] # None
    BY <1>1, <1>2, <1>4, SameMaps
  <2>2. Types'
    BY <1>1, <1>4, <2>1 DEF Types
  <2>3. OneStory' /\ UUIDsDistinct' /\ \A l \in Lines' : l.uuid \in 1..Len(file') + nextUUID'
    BY <1>1, <1>2, <1>3, <1>4 DEF OneStory, UUIDsDistinct
  <2>4. disk' # "behind" /\ (disk' = "good" => Whole' /\ \A l \in acked' : OnDisk(l)')
    BY <1>1, <1>2, <1>3 DEF Whole, OnDisk
  <2>5. QED BY <1>1, <1>2, <1>4, <2>1, <2>2, <2>3, <2>4, NotUp
<1>5. CASE Whole /\ Load /\ server' = "up"
  <2>1. NextUUID \in Nat /\ 1 <= NextUUID /\ \A l \in Lines : l.uuid < NextUUID
    BY <1>1, <1>2, NextUUIDFacts
  <2>2. /\ MapsType' /\ ReverseRight'
        /\ \A i \in IDs : data'[i] # None <=> owners'[i] # None
        /\ Agree' /\ WrittenBut({})'
        /\ nextUUID' = NextUUID
    BY <1>1, <1>2, <1>5, LoadEffect
  <2>3. Types'
    BY <1>1, <1>5, <2>1, <2>2 DEF Types
  <2>4. Contents'
    BY <1>2, <1>3, <2>2 DEF Contents, OneStory
  <2>5. Rewriting'
    BY <1>1, <1>2, <1>5 DEF Rewriting
  <2>6. Durable'
    <3>1. disk' = "good" => Whole' /\ \A l \in acked' : OnDisk(l)'
      BY <1>1, <1>2, <1>3 DEF Whole, OnDisk
    <3>2. disk' # "lost" => \A l \in acked' : Resolves(l)'
      BY <1>1, <1>2, <2>2, <3>1 DEF OnDisk, Agree, Resolves
    <3>3. QED BY <1>5, <2>2, <3>1, <3>2 DEF Durable
  <2>7. IsFiniteSet(Known') /\ Cardinality(Known') < nextUUID'
    <3> DEFINE N == 1..nextUUID' - 1
               f == [i \in Known' |-> (CHOOSE l \in Lines : l.id = i).uuid]
    <3>1. \A i \in Known' : \E l \in Lines : l.id = i
      BY <1>3, <2>2 DEF Known, WrittenBut
    <3>2. \A l \in Lines : l.uuid \in N
      <4>1. Len(file) \in Nat /\ nextUUID \in Nat
        BY <1>1 DEF Types
      <4>2. QED BY <1>2, <2>1, <2>2, <4>1
    <3>3. \A l, m \in Lines : l.uuid = m.uuid => l = m
      <4>1. \A l \in Lines : \E k \in DOMAIN file : file[k] = l
        BY DEF Lines
      <4>2. QED BY <1>2, <1>5, <4>1 DEF UUIDsDistinct, Whole
    <3>4. \A i \in Known' : /\ (CHOOSE l \in Lines : l.id = i) \in Lines
                            /\ (CHOOSE l \in Lines : l.id = i).id = i
      BY <3>1
    <3>5. f \in [Known' -> N]
      BY <3>2, <3>4
    <3>6. \A i, j \in Known' : f[i] = f[j] => i = j
      BY <3>3, <3>4
    <3>7. f \in Injection(Known', N)
      BY <3>5, <3>6 DEF Injection, IsInjective
    <3>8. /\ nextUUID' \in Nat /\ 1 <= nextUUID'
          /\ IsFiniteSet(N) /\ Cardinality(N) = nextUUID' - 1
      BY <2>1, <2>2, FS_Interval
    <3> HIDE DEF N, f
    <3>9. IsFiniteSet(Known') /\ Cardinality(Known') <= Cardinality(N)
      BY <3>7, <3>8, FS_Injection
    <3>10. Cardinality(Known') \in Nat
      BY <3>9, FS_CardinalityType
    <3>11. QED BY <3>8, <3>9, <3>10
  <2>8. Numbered'
    BY <1>1, <1>2, <1>3, <1>5, <2>1, <2>2, <2>7 DEF Numbered, UUIDsDistinct
  <2>9. QED BY <2>3, <2>4, <2>5, <2>6, <2>8 DEF IInv
<1>6. QED BY <1>1, <1>4, <1>5

----------------------------------------------------------------------------
(* The theorems                                                            *)

LEMMA InitInv ==
  ASSUME Init
  PROVE  IInv
<1>1. /\ data = [i \in IDs |-> None] /\ owners = [i \in IDs |-> None]
      /\ reverse = [u \in URLs |-> None] /\ deleted = {}
      /\ file = <<>> /\ nextUUID = 1 /\ server = "up" /\ flush = "no"
      /\ left = {} /\ pending = {} /\ acked = {} /\ disk = "good"
  BY DEF Init, RepoInit
<1>2. /\ file \in Seq(Record \cup {Torn}) /\ DOMAIN file = {}
      /\ Lines = {} /\ Whole
  BY <1>1 DEF Lines, Whole
<1>3. Types
  BY <1>1, <1>2 DEF Types, MapsType
<1>4. Contents
  BY <1>1, <1>2 DEF Contents, ReverseRight, OneStory, Agree
<1>5. Rewriting
  BY <1>1 DEF Rewriting
<1>6. Durable
  BY <1>1, <1>2 DEF Durable, WrittenBut
<1>7. Numbered
  <2>1. Known = {}
    BY <1>1 DEF Known
  <2>2. QED BY <1>1, <1>2, <2>1, FS_EmptySet DEF Numbered, UUIDsDistinct
<1>8. QED BY <1>3, <1>4, <1>5, <1>6, <1>7 DEF IInv

\* Neither a step that changes nothing nor a start that fails touches the maps or the file.
LEMMA StutterStep ==
  ASSUME IInv, UNCHANGED vars \/ StartFails
  PROVE  IInv'
<1>1. /\ data' = data /\ reverse' = reverse /\ owners' = owners /\ deleted' = deleted
      /\ file' = file /\ nextUUID' = nextUUID /\ flush' = flush /\ left' = left
      /\ pending' = pending /\ server' = server /\ acked' = acked /\ disk' = disk
  BY DEF vars, repoVars, diskVars, StartFails
<1>2. Lines' = Lines /\ Known' = Known /\ (Whole <=> Whole')
  BY <1>1 DEF Lines, Known, Whole
<1>3. Types'
  BY <1>1 DEF IInv, Types, MapsType
<1>4. Contents'
  BY <1>1, <1>2 DEF IInv, Contents, ReverseRight, OneStory, Agree
<1>5. Rewriting'
  BY <1>1, <1>2 DEF IInv, Rewriting, Exact, WrittenBut
<1>6. Durable'
  BY <1>1, <1>2 DEF IInv, Durable, OnDisk, WrittenBut, Resolves
<1>7. Numbered'
  BY <1>1, <1>2 DEF IInv, Numbered, UUIDsDistinct
<1>8. QED BY <1>3, <1>4, <1>5, <1>6, <1>7 DEF IInv

\* The invariant from which the others follow: what the lines of the file and the
\* maps have to do with one another in the middle of every call, and what each state
\* of the disk promises.
THEOREM IndInvariant == Spec => []IInv
<1>1. Init => IInv
  BY InitInv
<1>2. IInv /\ [Next]_vars => IInv'
  <2> SUFFICES ASSUME IInv, [Next]_vars PROVE IInv'
    OBVIOUS
  <2>1. CASE \E e \in Entry : FileSave(e) \/ FileSaveFails(e) \/ CrashInSave(e)
    BY <2>1, FileSaveStep, FileSaveFailsStep, CrashInSaveStep
  <2>2. CASE \E n \in 1..MaxBatch : \E es \in BatchesOf(n) :
               FileSaveBatch(es) \/ FileSaveBatchFails(es)
    BY <2>2, FileSaveBatchStep, FileSaveBatchFailsStep
  <2>3. CASE \E i \in IDs : FlushLine(i)
    BY <2>3, FlushLineStep
  <2>4. CASE FlushFails \/ FlushDone
    BY <2>4, FlushFailsStep, FlushDoneStep
  <2>5. CASE \E ids \in (SUBSET IDs) \ {{}}, u \in Users : FileDeleteUserURLs(ids, u)
    BY <2>5, FileDeleteStep
  <2>6. CASE \E u \in URLs : FileLookup(u)
    BY <2>6, FileLookupStep
  <2>7. CASE FileClose \/ FileCloseFails \/ Crash \/ Start
    BY <2>7, FileCloseStep, FileCloseFailsStep, CrashStep, StartStep
  <2>8. CASE UNCHANGED vars \/ StartFails
    BY <2>8, StutterStep
  <2>9. QED BY <2>1, <2>2, <2>3, <2>4, <2>5, <2>6, <2>7, <2>8 DEF Next
<1>3. QED
  BY <1>1, <1>2, PTL DEF Spec

\* A link that a client has been given resolves unless the process has ended while
\* the file was behind the maps.
THEOREM LostOnlyBehindHolds == Spec => []LostOnlyBehind
<1>1. IInv => LostOnlyBehind
  BY DEF IInv, Durable, LostOnlyBehind, AckedSurvive, Ready
<1>2. QED
  BY <1>1, IndInvariant, PTL

\* After a rewrite that succeeds no line of the file is torn and it has every link that a
\* client has been given, whatever failed before it.
THEOREM RewriteRepairsHolds == Spec => []RewriteRepairs
<1>1. IInv => RewriteRepairs
  BY DEF IInv, Durable, RewriteRepairs, AckedOnDisk
<1>2. QED
  BY <1>1, IndInvariant, PTL

\* A Close that succeeds leaves exactly the maps on disk, deletions included, and no line torn.
THEOREM CleanRestartExactHolds == Spec => []CleanRestartExact
<1>1. IInv => CleanRestartExact
  <2> SUFFICES ASSUME IInv, server = "clean" PROVE CleanRestartExact
    BY DEF CleanRestartExact
  <2>1. Agree /\ Exact /\ flush = "no" /\ left = {} /\ Types
    BY DEF IInv, Contents, Rewriting, Types
  <2>2. \A l, m \in Lines : l.id = m.id => l = m
    <3>1. \A l \in Lines : \E k \in DOMAIN file : file[k] = l
      BY DEF Lines
    <3>2. QED BY <2>1, <3>1 DEF Exact
  <2>3. \A l \in Lines : l.id \in IDs /\ l.url # None /\ l.del \in BOOLEAN
    BY <2>1, LinesFacts, RecordFacts DEF Types
  <2>4. SUFFICES ASSUME NEW i \in IDs
                 PROVE  LET recs == {l \in Lines : l.id = i}
                        IN  IF data[i] = None THEN recs = {}
                            ELSE /\ Cardinality(recs) = 1
                                 /\ \A l \in recs : /\ l.url = data[i]
                                                    /\ l.user = owners[i]
                                                    /\ l.del <=> i \in deleted
    BY <2>1 DEF CleanRestartExact, Exact
  <2> DEFINE recs == {l \in Lines : l.id = i}
  <2>5. CASE data[i] = None
    <3>1. recs = {}
      BY <2>1, <2>3, <2>5 DEF Agree
    <3>2. QED BY <2>5, <3>1
  <2>6. CASE data[i] # None
    <3>1. PICK l \in Lines : l.id = i
      BY <2>1, <2>6 DEF Exact, WrittenBut
    <3>2. recs = {l}
      BY <2>2, <3>1
    <3>3. Cardinality(recs) = 1
      BY <3>2, FS_Singleton
    <3>4. \A m \in recs : /\ m.url = data[i]
                          /\ m.user = owners[i]
                          /\ m.del <=> i \in deleted
      BY <2>1, <2>3 DEF Agree, Exact
    <3>5. QED BY <2>6, <3>3, <3>4
  <2>7. QED BY <2>5, <2>6
<1>2. QED
  BY <1>1, IndInvariant, PTL

\* The lines of the file keep distinct numbers: a rewrite, which counts from one, never
\* overtakes the counter with which lines are appended.
THEOREM UUIDsDistinctHolds == Spec => []UUIDsDistinct
<1>1. IInv => UUIDsDistinct
  BY DEF IInv, Numbered
<1>2. QED
  BY <1>1, IndInvariant, PTL

\* The file never contradicts the maps.
THEOREM FileAgreesHolds == Spec => []FileAgrees
<1>1. IInv => FileAgrees
  BY DEF IInv, Contents, Agree, FileAgrees
<1>2. QED
  BY <1>1, IndInvariant, PTL
----------------------------------------------------------------------------
(* The listings                                                            *)

\* No two lines of the file, torn ones aside, are about one id.
OnceEach ==
  \A j, k \in DOMAIN file :
    Torn \notin {file[j], file[k]} /\ file[j].id = file[k].id => j = k

\* The listings are exact, and a load would make them so; and what else TypeOK says
\* that the types above do not.
ListInv ==
  /\ userURLs \in [Users -> Seq(IDs)]
  /\ ListingExact
  /\ OnceEach
  /\ nextUUID # 0
  /\ errors \in 0..MaxErrors

LEMMA OnceAppend ==
  ASSUME file \in Seq(Record \cup {Torn}), NEW rec \in Record \cup {Torn},
         file' = file \/ file' = Append(file, rec),
         OnceEach,
         rec # Torn => \A l \in Lines : l.id # rec.id
  PROVE  OnceEach'
<1>1. CASE file' = file
  BY <1>1 DEF OnceEach
<1>2. CASE file' = Append(file, rec)
  <2>1. /\ DOMAIN file' = 1..Len(file) + 1
        /\ \A k \in 1..Len(file) : file'[k] = file[k]
        /\ file'[Len(file) + 1] = rec
    BY <1>2, AppendEffect
  <2>2. /\ Len(file) \in Nat /\ DOMAIN file = 1..Len(file)
        /\ \A k \in 1..Len(file) : file[k] # Torn => file[k] \in Lines
    BY LinesFacts
  <2>3. SUFFICES ASSUME NEW j \in 1..Len(file) + 1, NEW k \in 1..Len(file) + 1,
                        Torn # file'[j], Torn # file'[k], file'[j].id = file'[k].id
                 PROVE  j = k
    BY <2>1 DEF OnceEach
  <2>4. CASE j \in 1..Len(file) /\ k \in 1..Len(file)
    BY <2>1, <2>2, <2>3, <2>4 DEF OnceEach
  <2>5. CASE j = Len(file) + 1 /\ k \in 1..Len(file)
    BY <2>1, <2>2, <2>3, <2>5
  <2>6. CASE k = Len(file) + 1 /\ j \in 1..Len(file)
    BY <2>1, <2>2, <2>3, <2>6
  <2>7. QED BY <2>2, <2>4, <2>5, <2>6
<1>3. QED BY <1>1, <1>2

\* A step that leaves owners and listings alone
LEMMA SameListings ==
  ASSUME userURLs \in [Users -> Seq(IDs)], ListingExact, owners' = owners, userURLs' = userURLs
  PROVE  userURLs' \in [Users -> Seq(IDs)] /\ ListingExact'
BY DEF ListingExact, IsInjective

\* A batch that succeeds, whatever becomes of the file
LEMMA BatchListings ==
  ASSUME IInv, ListInv, NEW n \in Nat, NEW es \in [1..n -> Entry], SaveBatch(es),
         \A j, k \in 1..n : es[j].id = es[k].id => j = k
  PROVE  userURLs' \in [Users -> Seq(IDs)] /\ ListingExact'
<1>1. RepoType /\ Owned /\ ListingExact
  BY DEF IInv, ListInv, Types, MapsType, RepoType, Owned
<1>2. RepoType' /\ ListingExact'
  BY <1>1, SaveBatchListing
<1>3. QED BY <1>2 DEF RepoType

\* A link of its own is a batch of one.
LEMMA SaveListings ==
  ASSUME IInv, ListInv, NEW e \in Entry, Save(e)
  PROVE  userURLs' \in [Users -> Seq(IDs)] /\ ListingExact'
<1>1. PICK n \in Nat : n = 1
  OBVIOUS
<1>2. <<e>> \in [1..n -> Entry] /\ <<e>>[1] = e
  BY <1>1
<1>3. PICK es \in [1..n -> Entry] : SaveBatch(es) /\ es[1] = e
  BY <1>2 DEF Save
<1>4. \A j, k \in 1..n : es[j].id = es[k].id => j = k
  BY <1>1
<1>5. QED BY <1>3, <1>4, BatchListings

\* A new link's line is the only one about its id.
LEMMA NewLineOnce ==
  ASSUME IInv, Ready, OnceEach, NEW e \in Entry, data[e.id] = None, file' = Extend(RecordOf(e))
  PROVE  OnceEach'
<1>1. /\ file \in Seq(Record \cup {Torn})
      /\ RecordOf(e) \in Record \cup {Torn} /\ RecordOf(e).id = e.id
  BY RecordOfFacts DEF IInv, Types
<1>2. \A l \in Lines : l.id # e.id
  BY NewLine
<1>3. file' = file \/ file' = Append(file, RecordOf(e))
  BY DEF Extend
<1>4. QED BY <1>1, <1>2, <1>3, OnceAppend

\* Nor is a line that was not finished about any.
LEMMA TornOnce ==
  ASSUME IInv, OnceEach,
         file' = file \/ file' = Append(file, Torn) \/ file' = Extend(Torn)
  PROVE  OnceEach'
<1>1. file \in Seq(Record \cup {Torn}) /\ Torn \in Record \cup {Torn}
  BY DEF IInv, Types
<1>2. file' = file \/ file' = Append(file, Torn)
  BY <1>1, TornEffect
<1>3. QED BY <1>1, <1>2, OnceAppend

\* What a load makes of a file with a line for each id: a listing has the ids of
\* the user's lines.
LEMMA LoadListings ==
  ASSUME IInv, OnceEach, Whole, Load, file' = file
  PROVE  userURLs' \in [Users -> Seq(IDs)] /\ ListingExact'
<1>1. /\ Len(file) \in Nat /\ DOMAIN file = 1..Len(file)
      /\ \A k \in 1..Len(file) : file[k] \in Lines /\ file[k].id \in IDs
      /\ \A l \in Lines : \E k \in 1..Len(file) : file[k] = l
  BY LinesFacts, RecordFacts DEF IInv, Types
<1>2. Types /\ OneStory /\ Lines' = Lines
  BY DEF IInv, Contents, Lines
<1>3. /\ \A i \in IDs : data'[i] # None <=> owners'[i] # None
      /\ Agree' /\ WrittenBut({})'
  BY <1>2, LoadEffect
<1>4. \A j, k \in 1..Len(file) : file[j].id = file[k].id => j = k
  BY <1>1 DEF OnceEach, Whole
<1>5. userURLs' = [u \in Users |-> Listed(file, u)]
  BY DEF Load
<1>6. ASSUME NEW u \in Users
      PROVE  /\ Listed(file, u) \in Seq(IDs) /\ IsInjective(Listed(file, u))
             /\ Range(Listed(file, u)) = {i \in IDs : owners'[i] = u}
  <2>1. /\ Listed(file, u) \in Seq(IDs) /\ IsInjective(Listed(file, u))
        /\ \A i : i \in Range(Listed(file, u)) <=>
                    \E k \in 1..Len(file) : file[k].user = u /\ file[k].id = i
    BY <1>1, <1>4, ListedEffect
  <2>2. ASSUME NEW i \in Range(Listed(file, u))
        PROVE  i \in IDs /\ owners'[i] = u
    <3>1. PICK k \in 1..Len(file) : file[k].user = u /\ file[k].id = i
      BY <2>1
    <3>2. QED BY <1>1, <1>2, <1>3, <3>1 DEF Agree
  <2>3. ASSUME NEW i \in IDs, owners'[i] = u
        PROVE  i \in Range(Listed(file, u))
    <3>1. data'[i] # None
      BY <1>3, <2>3, NoneAssumption
    <3>2. PICK l \in Lines : l.id = i
      BY <1>2, <1>3, <3>1 DEF WrittenBut
    <3>3. l.user = u
      BY <1>2, <1>3, <2>3, <3>2 DEF Agree
    <3>4. QED BY <1>1, <2>1, <3>2, <3>3
  <2>4. QED BY <2>1, <2>2, <2>3
<1>7. QED BY <1>5, <1>6 DEF ListingExact

LEMMA ListInit ==
  ASSUME Init
  PROVE  ListInv
<1>1. /\ userURLs = [u \in Users |-> <<>>] /\ owners = [i \in IDs |-> None]
      /\ file = <<>> /\ nextUUID = 1 /\ errors = 0
  BY DEF Init, RepoInit
<1>2. ASSUME NEW u \in Users
      PROVE  /\ IsInjective(userURLs[u])
             /\ Range(userURLs[u]) = {i \in IDs : owners[i] = u}
  <2>1. userURLs[u] = <<>> /\ u # None
    BY <1>1, NoneAssumption
  <2>2. IsInjective(userURLs[u]) /\ Range(userURLs[u]) = {}
    BY <2>1 DEF IsInjective, Range
  <2>3. {i \in IDs : owners[i] = u} = {}
    BY <1>1, <2>1
  <2>4. QED BY <2>2, <2>3
<1>3. OnceEach
  BY <1>1 DEF OnceEach
<1>4. QED BY <1>1, <1>2, <1>3, MaxErrorsAssumption DEF ListInv, ListingExact

LEMMA ListStep ==
  ASSUME IInv, ListInv, [Next]_vars
  PROVE  ListInv'
<1>1. /\ userURLs \in [Users -> Seq(IDs)] /\ ListingExact /\ OnceEach
      /\ nextUUID # 0 /\ errors \in 0..MaxErrors
      /\ nextUUID \in Nat /\ nextUUID + 1 # 0 /\ MaxErrors \in Nat
      /\ errors < MaxErrors => errors + 1 \in 0..MaxErrors
  BY MaxErrorsAssumption DEF ListInv, IInv, Types
<1>2. ASSUME NEW e \in Entry, FileSave(e)
      PROVE  ListInv'
  <2>1. userURLs' \in [Users -> Seq(IDs)] /\ ListingExact'
    BY <1>2, SaveListings DEF FileSave
  <2>2. data[e.id] = None
    BY <1>2, SaveEffect DEF FileSave, IInv, Contents
  <2>3. OnceEach'
    BY <1>1, <1>2, <2>2, NewLineOnce DEF FileSave
  <2>4. QED BY <1>1, <1>2, <2>1, <2>3 DEF FileSave, ListInv
<1>3. ASSUME NEW e \in Entry, FileSaveFails(e)
      PROVE  ListInv'
  <2>1. OnceEach'
    BY <1>1, <1>3, TornOnce DEF FileSaveFails
  <2>2. userURLs' \in [Users -> Seq(IDs)] /\ ListingExact'
    BY <1>1, <1>3, SameListings DEF FileSaveFails, repoVars
  <2>3. QED BY <1>1, <1>3, <2>1, <2>2 DEF FileSaveFails, ListInv
<1>4. ASSUME NEW e \in Entry, CrashInSave(e)
      PROVE  ListInv'
  <2>1. OnceEach'
    BY <1>1, <1>4, SaveOutcomeNew, NewLineOnce DEF CrashInSave
  <2>2. userURLs' \in [Users -> Seq(IDs)] /\ ListingExact'
    BY <1>1, <1>4, SameListings DEF CrashInSave, repoVars
  <2>3. QED BY <1>1, <1>4, <2>1, <2>2 DEF CrashInSave, ListInv
<1>5. ASSUME NEW n \in 1..MaxBatch, NEW es \in BatchesOf(n),
             FileSaveBatch(es) \/ FileSaveBatchFails(es)
      PROVE  ListInv'
  <2>1. n \in Nat /\ SaveBatch(es)
    BY <1>5, MaxBatchAssumption DEF FileSaveBatch, FileSaveBatchFails
  <2>2. /\ es \in [1..n -> Entry] /\ Len(es) = n
        /\ \A j, k \in 1..n : es[j].id = es[k].id => j = k
    BY <2>1, BatchFacts
  <2>3. userURLs' \in [Users -> Seq(IDs)] /\ ListingExact'
    BY <2>1, <2>2, BatchListings
  <2>4. nextUUID' = nextUUID + n /\ nextUUID' # 0
    BY <1>1, <1>5, <2>1, <2>2 DEF FileSaveBatch, FileSaveBatchFails
  <2>5. OnceEach' /\ errors' \in 0..MaxErrors
    BY <1>1, <1>5 DEF FileSaveBatch, FileSaveBatchFails, Truncate, OnceEach
  <2>6. QED BY <2>3, <2>4, <2>5 DEF ListInv
<1>6. ASSUME NEW i \in IDs, FlushLine(i)
      PROVE  ListInv'
  <2>1. /\ i \in left /\ data[i] # None /\ \A l \in Lines : l.id # i
        /\ Types /\ file \in Seq(Record \cup {Torn})
    BY <1>6 DEF FlushLine, IInv, Rewriting, Types
  <2>2. Flushed(i) \in Record \cup {Torn} /\ Flushed(i).id = i
    BY <2>1, FlushedFacts
  <2>3. file' = Append(file, Flushed(i))
    BY <1>6 DEF FlushLine
  <2>4. OnceEach'
    BY <1>1, <2>1, <2>2, <2>3, OnceAppend
  <2>5. userURLs' \in [Users -> Seq(IDs)] /\ ListingExact'
    BY <1>1, <1>6, SameListings DEF FlushLine, repoVars
  <2>6. QED BY <1>1, <1>6, <2>4, <2>5 DEF FlushLine, ListInv
<1>7. CASE FlushFails
  <2>1. OnceEach'
    BY <1>1, <1>7, TornOnce DEF FlushFails
  <2>2. userURLs' \in [Users -> Seq(IDs)] /\ ListingExact'
    BY <1>1, <1>7, SameListings DEF FlushFails, repoVars
  <2>3. QED BY <1>1, <1>7, <2>1, <2>2 DEF FlushFails, ListInv
<1>8. CASE Start
  <2>1. CASE Whole /\ Load
    <3>1. userURLs' \in [Users -> Seq(IDs)] /\ ListingExact'
      BY <1>1, <1>8, <2>1, LoadListings DEF Start
    <3>2. nextUUID' # 0
      <4>1. Types /\ \A l \in Lines : l.uuid \in 1..Len(file) + nextUUID
        BY DEF IInv, Numbered
      <4>2. NextUUID \in Nat /\ 1 <= NextUUID
        BY <4>1, NextUUIDFacts
      <4>3. QED BY <2>1, <4>2 DEF Load
    <3>3. QED BY <1>1, <1>8, <3>1, <3>2 DEF Start, ListInv, OnceEach
  <2>2. CASE UNCHANGED <<repoVars, nextUUID>>
    <3>1. userURLs' \in [Users -> Seq(IDs)] /\ ListingExact'
      BY <1>1, <2>2, SameListings DEF repoVars
    <3>2. QED BY <1>1, <1>8, <2>2, <3>1 DEF Start, ListInv, OnceEach
  <2>3. QED BY <1>8, <2>1, <2>2 DEF Start, Loadable
<1>9. CASE \/ FlushDone \/ FileClose \/ FileCloseFails \/ Crash \/ StartFails \/ UNCHANGED vars
           \/ \E ids \in (SUBSET IDs) \ {{}}, u \in Users : FileDeleteUserURLs(ids, u)
           \/ \E u \in URLs : FileLookup(u)
  <2>1. /\ owners' = owners /\ userURLs' = userURLs /\ nextUUID' = nextUUID
        /\ file' = file \/ file' = <<>>
        /\ errors' = errors \/ (errors < MaxErrors /\ errors' = errors + 1)
    BY <1>9 DEF FlushDone, FileClose, FileCloseFails, Crash, StartFails, FileDeleteUserURLs,
                FileLookup, DeleteUserURLs, Truncate, vars, repoVars, diskVars
  <2>2. OnceEach'
    BY <1>1, <2>1 DEF OnceEach
  <2>3. userURLs' \in [Users -> Seq(IDs)] /\ ListingExact'
    BY <1>1, <2>1, SameListings
  <2>4. QED BY <1>1, <2>1, <2>2, <2>3 DEF ListInv
<1>10. QED BY <1>2, <1>3, <1>4, <1>5, <1>6, <1>7, <1>8, <1>9 DEF Next

LEMMA ListInvHolds == Spec => []ListInv
<1>1. IInv /\ ListInv /\ [Next]_vars => ListInv'
  BY ListStep
<1>2. Init => ListInv
  BY ListInit
<1>3. QED
  BY <1>1, <1>2, IndInvariant, PTL DEF Spec

\* Every variable keeps its type.
THEOREM TypeCorrect == Spec => []TypeOK
<1>1. IInv /\ ListInv => TypeOK
  BY DEF IInv, ListInv, Types, MapsType, RepoType, TypeOK
<1>2. QED
  BY <1>1, IndInvariant, ListInvHolds, PTL

\* A user's listing shows each link of the user once and no other link, before and
\* after any number of failures and restarts: a load never finds two lines for an id.
THEOREM ListingExactHolds == Spec => []ListingExact
<1>1. ListInv => ListingExact
  BY DEF ListInv
<1>2. QED
  BY <1>1, ListInvHolds, PTL

----------------------------------------------------------------------------
(* What is promised when nothing goes wrong with the file                  *)

\* No system call has failed, the file is behind the maps in a rewrite only, and nothing
\* but the length of a line keeps the server from starting.
Calm ==
  /\ errors = 0
  /\ disk # "lost"
  /\ disk = "behind" => flush # "no"
  /\ server = "failed" => \E l \in Lines : TooLong(l)

LEMMA CalmStep ==
  ASSUME MaxErrors = 0, CrashInFlush = FALSE, IInv, Calm, [Next]_vars
  PROVE  Calm'
<1> USE DEF Calm
<1>1. \/ disk = "good"
      \/ disk = "behind" /\ flush # "no" /\ server = "up"
  BY DEF IInv, Types, Rewriting
<1>2. CASE \E e \in Entry : FileSave(e) \/ FileSaveFails(e) \/ CrashInSave(e)
  BY <1>1, <1>2 DEF FileSave, FileSaveFails, CrashInSave, Ready, LoseMaps
<1>3. CASE \E n \in 1..MaxBatch : \E es \in BatchesOf(n) : FileSaveBatch(es) \/ FileSaveBatchFails(es)
  BY <1>1, <1>3 DEF FileSaveBatch, FileSaveBatchFails, Truncate, FallBehind, Ready
<1>4. CASE (\E i \in IDs : FlushLine(i)) \/ FlushFails \/ FlushDone
  BY <1>1, <1>4 DEF FlushLine, FlushFails, FlushDone
<1>5. CASE FileClose \/ FileCloseFails \/ Crash \/ StartFails
  BY <1>1, <1>5 DEF FileClose, FileCloseFails, Crash, StartFails, Truncate, FallBehind, LoseMaps,
                    Ready
<1>6. CASE Start
  <2>1. Whole /\ disk = "good"
    BY <1>1, <1>6 DEF Start, IInv, Durable
  <2>2. server' = "failed" => \E l \in Lines : TooLong(l)
    BY <1>6, <2>1 DEF Start, Loadable
  <2>3. Lines' = Lines
    BY <1>6 DEF Start, Lines
  <2>4. QED
    BY <1>6, <2>1, <2>2, <2>3 DEF Start
<1>7. CASE \/ UNCHANGED vars
           \/ \E ids \in (SUBSET IDs) \ {{}}, u \in Users : FileDeleteUserURLs(ids, u)
           \/ \E u \in URLs : FileLookup(u)
  <2>1. UNCHANGED <<errors, disk, flush, server, file>>
    BY <1>7 DEF vars, diskVars, FileDeleteUserURLs, FileLookup
  <2>2. Lines' = Lines
    BY <2>1 DEF Lines
  <2>3. QED
    BY <2>1, <2>2
<1>8. QED
  BY <1>2, <1>3, <1>4, <1>5, <1>6, <1>7 DEF Next

\* What is left of the promise that the findings break: if no system call on the file fails
\* and no rewrite is killed, the file has every link that a client has been given, all of
\* them resolve, and a server that is killed at any other moment, or closed, starts again,
\* unless the file has a line too long for the scanner of load.
THEOREM PromiseKept ==
  ASSUME MaxErrors = 0, CrashInFlush = FALSE
  PROVE  Spec => [](/\ AckedSurvive /\ AckedOnDisk
                    /\ server = "failed" => \E l \in Lines : TooLong(l))
<1>1. Init => Calm
  BY DEF Init, Calm
<1>2. IInv /\ Calm /\ [Next]_vars => Calm'
  BY CalmStep
<1>3. IInv /\ Calm => /\ AckedSurvive /\ AckedOnDisk
                      /\ server = "failed" => \E l \in Lines : TooLong(l)
  <2> SUFFICES ASSUME IInv, Calm
               PROVE  AckedSurvive /\ AckedOnDisk
    BY DEF Calm
  <2>1. AckedSurvive
    BY DEF IInv, Durable, Calm, AckedSurvive, Ready
  <2>2. AckedOnDisk
    BY DEF IInv, Types, Durable, Calm, AckedOnDisk
  <2>3. QED
    BY <2>1, <2>2
<1>4. QED
  BY <1>1, <1>2, <1>3, IndInvariant, PTL DEF Spec
=============================================================================
