-------------------------- MODULE CacheNodeProofs ---------------------------
(***************************************************************************)
(* For every set of payloads, lookups and programs, and whatever payload   *)
(* the peer sends under whatever resource: the index speaks of files that  *)
(* are there, lookups get a payload that has been stored as what they      *)
(* asked for, and nothing of the peer's passes for a page of Flashback;    *)
(* for every choice of limits, the requests to Flashback keep them.        *)
(***************************************************************************)
EXTENDS CacheNode, FiniteSetTheorems, NaturalsInduction, SequenceTheorems, TLAPS

Writer == Lookup \cup {"loop", "save", "sync"}
Put == [who : Writer, h : Hash, r : Resource]
Provenance == {"none", "origin", "peer"}
File == [r : Resource \cup {None}, provenance : Provenance]
Result == [h : Hash \cup {None}, r : Resource \cup {None}, provenance : Provenance]
LookupType == [at : {"idle", "missed", "waiting", "asking", "storing", "done"},
               call : Lookup \cup {None},
               result : Result]

\* The types of the store, of the lookups and of what the peer has sent.
Types ==
    /\ disk \in [Hash -> File] /\ index \in [Resource -> Hash \cup {None}]
    /\ puts \subseteq Put /\ made \subseteq Hash /\ named \in [Hash -> SUBSET Resource]
    /\ look \in [Lookup -> LookupType]
    /\ busy \in [{Key[l] : l \in Lookup} -> Lookup \cup {None}]
    /\ chan \in [Lookup -> SUBSET Bodies]
    /\ net \subseteq [to : Lookup, body : Bodies]

\* The file of an object on its way into the index is there, and has been
\* stored under its resource; that of a lookup is what the lookup asked for.
PutsHonest ==
    \A p \in puts : /\ Stored(p.h) /\ p.r \in named[p.h]
                    /\ p.who \in Lookup => Key[p.who] = p.h \/ Key[p.who] = p.r

\* A lookup that waits for another waits for one with its own key.
CallsMatch ==
    /\ \A l \in Lookup : busy[Key[l]] # None => Key[busy[Key[l]]] = Key[l]
    /\ \A l \in Lookup : look[l].at = "waiting" => /\ look[l].call \in Lookup
                                                   /\ Key[look[l].call] = Key[l]

\* The three parts of ObjectsHonest; a file has been stored under the resource
\* it holds.
IndexHonest == \A r \in Resource : index[r] # None => Stored(index[r]) /\ r \in named[index[r]]
OriginHonest ==
    \A h \in Hash : /\ Stored(h) => disk[h].r \in named[h]
                    /\ disk[h].provenance = "origin" => h \in made /\ disk[h].r = Res[h]
Honest(o, l, own, names) ==
    o # NoObject => /\ Key[l] = o.h \/ Key[l] \in names[o.h]
                    /\ o.h \in Hash /\ o.r \in names[o.h]
                    /\ o.provenance = "origin" => o.h \in own /\ o.r = Res[o.h]
ResultsHonest == \A l \in Lookup : Honest(look[l].result, l, made, named)

\* What this node has got, and what it has stored it under, is never forgotten.
Grows == made \subseteq made' /\ \A h \in Hash : named[h] \subseteq named'[h]

\* The inductive invariant.
IInv == Types /\ PutsHonest /\ CallsMatch /\ IndexHonest /\ OriginHonest /\ ResultsHonest

-----------------------------------------------------------------------------
(* The store.                                                              *)

\* Among finitely many files there is a last one.
LEMMA LastFile ==
    ASSUME NEW S, S \subseteq Hash, S # {}
    PROVE  \E h \in S : \A x \in S : x <= h
<1> DEFINE Above(h) == {x \in S : x > h}
           T == {Above(h) : h \in S}
           R == StrictSubsetOrdering(S)
<1>1. IsFiniteSet(S) /\ S \subseteq Nat
  BY CacheAssumption, FS_Subset
<1>2. IsWellFoundedOn(R, SUBSET S)
  BY <1>1, FS_StrictSubsetOrderingWellFounded, FS_FiniteSubsetsOfFinite
<1>3. T \subseteq SUBSET S /\ T # {}
  OBVIOUS
<1>4. \E t \in T : \A y \in T : ~(<<y, t>> \in R)
  <2> HIDE DEF T, R
  <2> QED BY <1>2, <1>3, WFMin
<1>5. PICK h \in S : \A y \in T : ~(<<y, Above(h)>> \in R)
  <2> HIDE DEF R
  <2> QED BY <1>4
<1>6. ASSUME NEW x \in S, x > h PROVE FALSE
  <2>1. Above(x) \in T /\ Above(x) \subseteq S /\ Above(h) \subseteq S
    OBVIOUS
  <2>2. Above(x) \subseteq Above(h)
    <3>1. \A y \in Nat : y > x => y > h
      BY <1>1, <1>6
    <3> QED BY <1>1, <3>1
  <2>3. x \in Above(h) /\ x \notin Above(x)
    BY <1>1, <1>6
  <2>4. <<Above(x), Above(h)>> \in R
    <3>1. Above(x) # Above(h)
      BY <2>3
    <3> HIDE DEF Above
    <3> QED BY <2>1, <2>2, <3>1 DEF StrictSubsetOrdering
  <2> QED BY <1>5, <2>1, <2>4
<1> QED BY <1>1, <1>6

\* The index that is built from the directory speaks of files that are there.
LEMMA OpenIndexes ==
    ASSUME disk \in [Hash -> File]
    PROVE  /\ OpenObjectStore \in [Resource -> Hash \cup {None}]
           /\ \A r \in Resource : OpenObjectStore[r] # None =>
                Stored(OpenObjectStore[r]) /\ disk[OpenObjectStore[r]].r = r
<1> SUFFICES ASSUME NEW r \in Resource
             PROVE  \/ OpenObjectStore[r] = None
                    \/ /\ OpenObjectStore[r] \in Hash
                       /\ Stored(OpenObjectStore[r]) /\ disk[OpenObjectStore[r]].r = r
  BY DEF OpenObjectStore
<1> DEFINE files == {h \in Hash : Stored(h) /\ disk[h].r = r}
<1>1. OpenObjectStore[r] = IF files = {} THEN None ELSE CHOOSE h \in files : \A x \in files : x <= h
  BY DEF OpenObjectStore
<1>2. CASE files = {}
  BY <1>1, <1>2
<1>3. CASE files # {}
  <2>1. files \subseteq Hash
    OBVIOUS
  <2> HIDE DEF files
  <2>2. \E h \in files : \A x \in files : x <= h
    BY <1>3, <2>1, LastFile
  <2>3. OpenObjectStore[r] \in files
    BY <1>1, <1>3, <2>2
  <2> QED BY <2>3 DEF files
<1> QED BY <1>2, <1>3

\* What Find returns is on disk, and has been stored as what was asked for.
LEMMA FindHonest ==
    ASSUME IInv, NEW l \in Lookup
    PROVE  Find(Key[l]) \in Result /\ Honest(Find(Key[l]), l, made, named)
<1> DEFINE k == Key[l]
           h == IF k \in Hash THEN k ELSE index[k]
<1>1. k \in Hash \cup Resource
  BY CacheAssumption
<1>2. h \in Hash \cup {None}
  BY <1>1 DEF IInv, Types
<1>3. Find(k) = IF h = None THEN NoObject
                ELSE IF ~Stored(h) THEN NoObject
                ELSE Object(h, disk[h].r, disk[h].provenance)
  BY DEF Find
<1>4. CASE h = None \/ ~Stored(h)
  BY <1>3, <1>4 DEF NoObject, Object, Provenance, Result, Honest
<1>5. CASE ~(h = None \/ ~Stored(h))
  <2>1. h \in Hash /\ (k = h \/ k \in named[h])
    BY <1>1, <1>2, <1>5 DEF IInv, IndexHonest
  <2>2. Find(k) = Object(h, disk[h].r, disk[h].provenance) /\ Stored(h)
    BY <1>3, <1>5
  <2> HIDE DEF h
  <2>3. /\ disk[h] \in File /\ disk[h].r \in named[h]
        /\ disk[h].provenance = "origin" => h \in made /\ disk[h].r = Res[h]
    BY <2>1, <2>2 DEF IInv, Types, OriginHonest
  <2>4. Find(k).h = h /\ Find(k).r = disk[h].r /\ Find(k).provenance = disk[h].provenance
    BY <2>2 DEF Object
  <2>5. Honest(Find(k), l, made, named)
    BY <2>1, <2>3, <2>4 DEF Honest
  <2>6. Find(k) \in Result
    BY <2>1, <2>2, <2>3 DEF Object, Result, File
  <2> QED BY <2>5, <2>6
<1> QED BY <1>4, <1>5

\* The parts of the invariant that speak of the store.
StoreHonest ==
    /\ disk \in [Hash -> File] /\ index \in [Resource -> Hash \cup {None}]
    /\ puts \subseteq Put /\ made \subseteq Hash /\ named \in [Hash -> SUBSET Resource]
    /\ PutsHonest /\ IndexHonest /\ OriginHonest

\* A file is renamed into place.
LEMMA PutFileKeeps ==
    ASSUME IInv, NEW who \in Writer, NEW h \in Hash, NEW r \in Resource,
           NEW o \in {"origin", "peer"}, PutFile(who, h, r, o), UNCHANGED index,
           (made' = made /\ o = "peer") \/ (made' = made \cup {h} /\ r = Res[h]),
           who \in Lookup => Key[who] = h \/ Key[who] = r
    PROVE  StoreHonest' /\ Grows
<1> DEFINE f == [r |-> r, provenance |-> o]
           p == [who |-> who, h |-> h, r |-> r]
<1>1. /\ disk' = [disk EXCEPT ![h] = f] /\ puts' = puts \cup {p}
      /\ named' = [named EXCEPT ![h] = @ \cup {r}]
  BY DEF PutFile
<1>2. /\ disk \in [Hash -> File] /\ puts \subseteq Put /\ index \in [Resource -> Hash \cup {None}]
      /\ named \in [Hash -> SUBSET Resource] /\ made \subseteq Hash
  BY DEF IInv, Types
<1>3. /\ f \in File /\ f # NoFile /\ f.r = r /\ f.provenance = o
      /\ p \in Put /\ p.who = who /\ p.h = h /\ p.r = r
  BY DEF Provenance, Put, File, NoFile
<1> HIDE DEF f, p
<1>4. /\ disk' \in [Hash -> File] /\ puts' \subseteq Put /\ made' \subseteq Hash
      /\ named' \in [Hash -> SUBSET Resource] /\ Grows
  BY <1>1, <1>2, <1>3 DEF Grows
<1>5. /\ disk'[h] = f /\ r \in named'[h]
      /\ \A x \in Hash \ {h} : disk'[x] = disk[x] /\ named'[x] = named[x]
      /\ \A x \in Hash : (Stored(x) => Stored(x)') /\ named[x] \subseteq named'[x]
  BY <1>1, <1>2, <1>3 DEF Stored
<1>6. PutsHonest'
  <2> SUFFICES ASSUME NEW q \in puts'
               PROVE  /\ Stored(q.h)' /\ q.r \in named'[q.h]
                      /\ q.who \in Lookup => Key[q.who] = q.h \/ Key[q.who] = q.r
    BY DEF PutsHonest
  <2>1. CASE q \in puts
    BY <1>2, <1>5, <2>1 DEF IInv, PutsHonest, Put
  <2>2. CASE q = p
    BY <1>3, <1>5, <2>2 DEF Stored
  <2> QED BY <1>1, <2>1, <2>2
<1>7. IndexHonest'
  BY <1>2, <1>5 DEF IInv, IndexHonest
<1>8. OriginHonest'
  <2> SUFFICES ASSUME NEW x \in Hash
               PROVE  /\ Stored(x)' => disk'[x].r \in named'[x]
                      /\ disk'[x].provenance = "origin" => x \in made' /\ disk'[x].r = Res[x]
    BY DEF OriginHonest
  <2>1. CASE x = h
    BY <1>3, <1>5, <2>1
  <2>2. CASE x # h
    BY <1>5, <2>2 DEF IInv, OriginHonest, Stored
  <2> QED BY <2>1, <2>2
<1> QED BY <1>2, <1>4, <1>6, <1>7, <1>8 DEF StoreHonest

\* A file that is in place is indexed.
LEMMA PutIndexKeeps ==
    ASSUME IInv, NEW p \in puts, PutIndex(p), UNCHANGED <<disk, made, named>>
    PROVE  StoreHonest'
<1>1. p.h \in Hash /\ p.r \in Resource /\ Stored(p.h) /\ p.r \in named[p.h]
  BY DEF IInv, Types, PutsHonest, Put
<1>2. index' = [index EXCEPT ![p.r] = p.h] /\ puts' \subseteq puts
  BY DEF PutIndex
<1>3. index' \in [Resource -> Hash \cup {None}]
      /\ \A r \in Resource : index'[r] = IF r = p.r THEN p.h ELSE index[r]
  BY <1>1, <1>2 DEF IInv, Types
<1>4. IndexHonest'
  BY <1>1, <1>3 DEF IInv, IndexHonest, Stored
<1>5. PutsHonest' /\ OriginHonest'
  BY <1>2 DEF IInv, PutsHonest, OriginHonest, Stored
<1> QED BY <1>2, <1>3, <1>4, <1>5 DEF StoreHonest, IInv, Types

-----------------------------------------------------------------------------
(* The lookups.                                                            *)

\* The parts of the invariant that speak of lookups.
LookupsHonest ==
    /\ look \in [Lookup -> LookupType]
    /\ busy \in [{Key[l] : l \in Lookup} -> Lookup \cup {None}]
    /\ chan \in [Lookup -> SUBSET Bodies]
    /\ CallsMatch /\ ResultsHonest

\* The two halves make up the invariant, but for the datagrams.
LEMMA Halves ==
    IInv <=> /\ StoreHonest /\ LookupsHonest
             /\ net \subseteq [to : Lookup, body : Bodies]
  BY DEF IInv, StoreHonest, LookupsHonest, Types

\* Nothing is an honest result.
LEMMA NoObjectHonest ==
    /\ NoObject \in Result
    /\ \A l \in Lookup : \A own, names : Honest(NoObject, l, own, names)
  BY DEF NoObject, Object, Provenance, Result, Honest

\* One lookup gets a new record, whose result is honest and which waits, if
\* it does, for a lookup with its own key.
LEMMA OneLookup ==
    ASSUME IInv, Grows, NEW l \in Lookup, NEW r \in LookupType,
           look' = [look EXCEPT ![l] = r], Honest(r.result, l, made', named'),
           r.at = "waiting" => r.call \in Lookup /\ Key[r.call] = Key[l],
           busy' \in [{Key[m] : m \in Lookup} -> Lookup \cup {None}],
           \A m \in Lookup : busy'[Key[m]] # None =>
                busy'[Key[m]] = busy[Key[m]] \/ Key[busy'[Key[m]]] = Key[m],
           chan' \in [Lookup -> SUBSET Bodies]
    PROVE  LookupsHonest'
<1>1. look' \in [Lookup -> LookupType] /\ look'[l] = r
      /\ \A m \in Lookup \ {l} : look'[m] = look[m]
  BY DEF IInv, Types
<1>2. CallsMatch'
  BY <1>1 DEF IInv, CallsMatch
<1>3. \A m \in Lookup \ {l} : Honest(look'[m].result, m, made', named')
  BY <1>1 DEF IInv, ResultsHonest, Honest, Grows
<1>4. ResultsHonest'
  BY <1>1, <1>3 DEF ResultsHonest
<1> QED BY <1>1, <1>2, <1>4 DEF LookupsHonest

\* The owner of a call ends it.
LEMMA FinishKeeps ==
    ASSUME IInv, Grows, NEW l \in Lookup,
           NEW o \in Result,
           Finish(l, o), Honest(o, l, made', named')
    PROVE  LookupsHonest'
<1> DEFINE r == [look[l] EXCEPT !.at = "done", !.result = o]
<1>1. look \in [Lookup -> LookupType] /\ look[l] \in LookupType
  BY DEF IInv, Types
<1>2. r \in LookupType /\ r.result = o /\ r.at = "done"
  BY <1>1 DEF LookupType
<1>3. look' = [look EXCEPT ![l] = r]
  BY <1>1 DEF Finish
<1>4. /\ busy' \in [{Key[m] : m \in Lookup} -> Lookup \cup {None}]
      /\ \A m \in Lookup : busy'[Key[m]] # None => busy'[Key[m]] = busy[Key[m]]
  BY DEF Finish, IInv, Types
<1>5. chan' \in [Lookup -> SUBSET Bodies]
  BY DEF Finish, IInv, Types
<1> HIDE DEF r
<1> QED BY <1>2, <1>3, <1>4, <1>5, OneLookup

\* Steps that leave the lookups alone.
LEMMA LookupsStay ==
    ASSUME IInv, UNCHANGED <<look, busy>>, Grows,
           chan' \in [Lookup -> SUBSET Bodies]
    PROVE  LookupsHonest'
<1>1. CallsMatch'
  BY DEF IInv, CallsMatch
<1>2. ResultsHonest'
  BY DEF IInv, ResultsHonest, Honest, Grows
<1> QED BY <1>1, <1>2 DEF IInv, Types, LookupsHonest

\* Steps that leave the store alone.
LEMMA StoreStays ==
    ASSUME IInv, UNCHANGED disks
    PROVE  StoreHonest' /\ Grows
  BY DEF IInv, Types, disks, StoreHonest, PutsHonest, IndexHonest, OriginHonest, Stored, Grows

\* A program that starts: no lookup, nothing on its way.
NoLookups ==
    /\ look = [l \in Lookup |-> NewLookup] /\ chan = [l \in Lookup |-> {}]
    /\ busy = [k \in {Key[l] : l \in Lookup} |-> None]

\* Then the lookups are honest.
LEMMA FreshStart == NoLookups => LookupsHonest
<1> USE DEF NoLookups
<1> SUFFICES ASSUME NoLookups PROVE LookupsHonest
  OBVIOUS
<1>1. NewLookup \in LookupType /\ NewLookup.at = "idle" /\ NewLookup.result = NoObject
  BY NoObjectHonest DEF NewLookup, LookupType
<1>2. CallsMatch
  BY <1>1 DEF CallsMatch
<1>3. ResultsHonest
  BY <1>1 DEF ResultsHonest, Honest
<1> QED BY <1>1, <1>2, <1>3 DEF LookupsHonest

\* The initial state satisfies the invariant.
LEMMA InvInit == Init => IInv
<1> SUFFICES ASSUME Init PROVE IInv
  OBVIOUS
<1>1. LookupsHonest
  BY FreshStart DEF Init, NoLookups
<1>2. StoreHonest
  BY DEF Init, StoreHonest, NoIndex, NoFile, File, Stored, Provenance, PutsHonest, IndexHonest, OriginHonest
<1>3. net \subseteq [to : Lookup, body : Bodies]
  BY DEF Init
<1> QED BY <1>1, <1>2, <1>3, Halves

-----------------------------------------------------------------------------
(* The steps.                                                              *)

\* Lookups begin, join a call, share its result, or end without one.
LEMMA LookupSteps ==
    ASSUME IInv, Begin \/ Join \/ GiveUp \/ LoopFailed \/ Shares
    PROVE  LookupsHonest'
<1>0. /\ look \in [Lookup -> LookupType] /\ made' = made /\ named' = named /\ Grows
      /\ busy \in [{Key[l] : l \in Lookup} -> Lookup \cup {None}]
      /\ chan \in [Lookup -> SUBSET Bodies]
  BY DEF IInv, Types, Begin, Join, GiveUp, LoopFailed, Shares, disks, Grows
<1>r. \A l \in Lookup : Honest(look[l].result, l, made, named)
  BY DEF IInv, ResultsHonest
<1>n. NoObject \in Result
      /\ \A l \in Lookup : Honest(NoObject, l, made, named)
  BY NoObjectHonest DEF IInv, Types
<1>1. CASE Begin
  <2>1. PICK l \in Lookup :
          /\ LET found == Find(Key[l])
                 up == rt.transport # "none" /\ rt.state = "up"
             IN  look' = [look EXCEPT ![l] =
                      IF up /\ found = NoObject THEN [@ EXCEPT !.at = "missed"]
                      ELSE [@ EXCEPT !.at = "done", !.result = IF up THEN found ELSE NoObject]]
          /\ UNCHANGED <<busy, chan>>
    BY <1>1 DEF Begin
  <2>2. ASSUME NEW o \in Result, Honest(o, l, made, named),
               look' = [look EXCEPT ![l] = [look[l] EXCEPT !.at = "done", !.result = o]]
        PROVE  LookupsHonest'
    <3> DEFINE r == [look[l] EXCEPT !.at = "done", !.result = o]
    <3>1. r \in LookupType /\ r.at = "done" /\ r.result = o
      BY <1>0 DEF LookupType
    <3>2. look' = [look EXCEPT ![l] = r]
      BY <2>2
    <3> HIDE DEF r
    <3> QED BY <1>0, <2>1, <2>2, <3>1, <3>2, OneLookup
  <2>3. CASE look' = [look EXCEPT ![l] = [look[l] EXCEPT !.at = "missed"]]
    <3> DEFINE r == [look[l] EXCEPT !.at = "missed"]
    <3>1. r \in LookupType /\ r.at = "missed" /\ r.result = look[l].result
      BY <1>0 DEF LookupType
    <3>2. look' = [look EXCEPT ![l] = r]
      BY <2>3
    <3> HIDE DEF r
    <3> QED BY <1>0, <1>r, <2>1, <3>1, <3>2, OneLookup
  <2>4. /\ Find(Key[l]) \in Result
        /\ Honest(Find(Key[l]), l, made, named)
    BY FindHonest
  <2>5. \/ look' = [look EXCEPT ![l] = [look[l] EXCEPT !.at = "missed"]]
        \/ look' = [look EXCEPT ![l] = [look[l] EXCEPT !.at = "done", !.result = Find(Key[l])]]
        \/ look' = [look EXCEPT ![l] = [look[l] EXCEPT !.at = "done", !.result = NoObject]]
    BY <2>1
  <2> QED BY <1>n, <2>2, <2>3, <2>4, <2>5
<1>2. CASE Join
  <2>1. PICK l \in Lookup :
          /\ IF busy[Key[l]] # None
             THEN look' = [look EXCEPT ![l].at = "waiting", ![l].call = busy[Key[l]]] /\ UNCHANGED busy
             ELSE look' = [look EXCEPT ![l].at = "asking"] /\ busy' = [busy EXCEPT ![Key[l]] = l]
          /\ UNCHANGED chan
    BY <1>2 DEF Join
  <2>2. CASE busy[Key[l]] # None
    <3> DEFINE r == [look[l] EXCEPT !.at = "waiting", !.call = busy[Key[l]]]
    <3>1. busy[Key[l]] \in Lookup /\ Key[busy[Key[l]]] = Key[l]
      BY <1>0, <2>2 DEF IInv, CallsMatch
    <3>2. r \in LookupType /\ r.call = busy[Key[l]] /\ r.result = look[l].result
      BY <1>0, <3>1 DEF LookupType
    <3>3. look' = [look EXCEPT ![l] = r] /\ UNCHANGED busy
      BY <1>0, <2>1, <2>2
    <3> HIDE DEF r
    <3> QED BY <1>0, <1>r, <2>1, <3>1, <3>2, <3>3, OneLookup
  <2>3. CASE busy[Key[l]] = None
    <3> DEFINE r == [look[l] EXCEPT !.at = "asking"]
    <3>1. r \in LookupType /\ r.at = "asking" /\ r.result = look[l].result
      BY <1>0 DEF LookupType
    <3>2. look' = [look EXCEPT ![l] = r] /\ busy' = [busy EXCEPT ![Key[l]] = l]
      BY <2>1, <2>3
    <3> HIDE DEF r
    <3>3. /\ busy' \in [{Key[m] : m \in Lookup} -> Lookup \cup {None}]
          /\ \A m \in Lookup : busy'[Key[m]] = IF Key[m] = Key[l] THEN l ELSE busy[Key[m]]
      BY <1>0, <3>2
    <3> QED BY <1>0, <1>r, <2>1, <3>1, <3>2, <3>3, OneLookup
  <2> QED BY <2>2, <2>3
<1>3. CASE GiveUp \/ LoopFailed
  <2>1. PICK l \in Lookup :
          \/ Finish(l, NoObject)
          \/ look' = [look EXCEPT ![l].at = "done"] /\ UNCHANGED <<busy, chan>>
    BY <1>3 DEF GiveUp, LoopFailed
  <2>2. CASE Finish(l, NoObject)
    BY <1>0, <1>n, <2>2, FinishKeeps
  <2>3. CASE look' = [look EXCEPT ![l].at = "done"] /\ UNCHANGED <<busy, chan>>
    <3> DEFINE r == [look[l] EXCEPT !.at = "done"]
    <3>1. r \in LookupType /\ r.at = "done" /\ r.result = look[l].result
      BY <1>0 DEF LookupType
    <3>2. look' = [look EXCEPT ![l] = r]
      BY <2>3
    <3> HIDE DEF r
    <3> QED BY <1>0, <1>r, <2>3, <3>1, <3>2, OneLookup
  <2> QED BY <2>1, <2>2, <2>3
<1>4. CASE Shares
  <2>1. PICK l \in Lookup :
          /\ look[l].at = "waiting" /\ look[look[l].call].at = "done"
          /\ look' = [look EXCEPT ![l].at = "done", ![l].result = look[look[l].call].result]
          /\ UNCHANGED <<busy, chan>>
    BY <1>4 DEF Shares
  <2> DEFINE o == look[look[l].call].result
             r == [look[l] EXCEPT !.at = "done", !.result = o]
  <2>2. look[l].call \in Lookup /\ Key[look[l].call] = Key[l]
    BY <2>1 DEF IInv, CallsMatch
  <2>3. o \in Result /\ Honest(o, l, made, named)
    BY <1>0, <1>r, <2>2 DEF LookupType, Honest
  <2>4. look' = [look EXCEPT ![l] = r]
    BY <1>0, <2>1
  <2> HIDE DEF o
  <2>5. r \in LookupType /\ r.at = "done" /\ r.result = o
    BY <1>0, <2>3 DEF LookupType
  <2> HIDE DEF r
  <2> QED BY <1>0, <2>1, <2>3, <2>4, <2>5, OneLookup
<1> QED BY <1>1, <1>2, <1>3, <1>4

\* A reply arrives: it is stored if it answers the request, and ends the
\* lookup otherwise.
LEMMA AcceptKeeps ==
    ASSUME IInv, AcceptPeerObject
    PROVE  StoreHonest' /\ LookupsHonest'
<1>a. PICK l \in Lookup : \E body \in chan[l] :
        /\ IF Answers(body, Key[l])
           THEN /\ PutFile(l, body.h, body.r, "peer")
                /\ look' = [look EXCEPT ![l].at = "storing"] /\ UNCHANGED <<busy, chan>>
           ELSE Finish(l, NoObject) /\ UNCHANGED <<disk, puts, named>>
        /\ UNCHANGED <<index, made>>
  BY DEF AcceptPeerObject
<1>1. PICK body \in chan[l] :
        /\ IF Answers(body, Key[l])
           THEN /\ PutFile(l, body.h, body.r, "peer")
                /\ look' = [look EXCEPT ![l].at = "storing"] /\ UNCHANGED <<busy, chan>>
           ELSE Finish(l, NoObject) /\ UNCHANGED <<disk, puts, named>>
        /\ UNCHANGED <<index, made>>
  BY <1>a
<1>0. look \in [Lookup -> LookupType] /\ chan \in [Lookup -> SUBSET Bodies]
      /\ busy \in [{Key[m] : m \in Lookup} -> Lookup \cup {None}]
      /\ Honest(look[l].result, l, made, named)
  BY DEF IInv, Types, ResultsHonest
<1>2. CASE Answers(body, Key[l])
  <2>1. /\ body.h \in Hash /\ body.r \in Resource
        /\ Key[l] = body.h \/ Key[l] = body.r
    BY <1>0, <1>2 DEF Answers, Bodies
  <2>2. StoreHonest' /\ Grows
    BY <1>1, <1>2, <2>1, PutFileKeeps DEF Writer
  <2> DEFINE r == [look[l] EXCEPT !.at = "storing"]
  <2>3. r \in LookupType /\ r.at = "storing" /\ r.result = look[l].result
    BY <1>0 DEF LookupType
  <2>4. look' = [look EXCEPT ![l] = r] /\ UNCHANGED <<busy, chan, made>>
    BY <1>1, <1>2
  <2> HIDE DEF r
  <2>5. LookupsHonest'
    <3>1. Honest(r.result, l, made', named')
      BY <1>0, <2>2, <2>3 DEF Honest, Grows
    <3> QED BY <1>0, <2>2, <2>3, <2>4, <3>1, OneLookup
  <2> QED BY <2>2, <2>5
<1>3. CASE ~Answers(body, Key[l])
  <2>1. StoreHonest' /\ Grows
    BY <1>1, <1>3, StoreStays DEF disks
  <2>2. LookupsHonest'
    BY <1>1, <1>3, <2>1, NoObjectHonest, FinishKeeps
  <2> QED BY <2>1, <2>2
<1> QED BY <1>2, <1>3

\* Every step keeps the invariant.
LEMMA InvStep == IInv /\ [Next]_vars => IInv'
<1> SUFFICES ASSUME IInv, [Next]_vars
             PROVE  /\ StoreHonest' /\ LookupsHonest'
                    /\ net' \subseteq [to : Lookup, body : Bodies]
  <2>1. (IInv <=> /\ StoreHonest /\ LookupsHonest
                  /\ net \subseteq [to : Lookup, body : Bodies])'
    BY Halves, PTL
  <2> QED BY <2>1
<1>0. /\ chan \in [Lookup -> SUBSET Bodies]
      /\ net \subseteq [to : Lookup, body : Bodies]
      /\ made \subseteq Hash
  BY DEF IInv, Types
<1>1. CASE Restart
  <2>1. LookupsHonest'
    <3>1. NoLookups'
      BY <1>1 DEF Restart, IInv, Types, NoLookups
    <3> QED BY <3>1, FreshStart, PTL
  <2>2. StoreHonest'
    BY <1>1 DEF Restart, IInv, Types, StoreHonest, NoIndex, PutsHonest, IndexHonest, OriginHonest, Stored
  <2> QED BY <1>1, <2>1, <2>2 DEF Restart
<1>2. CASE StartRuns
  <2>1. LookupsHonest'
    <3>1. Grows /\ UNCHANGED <<look, busy, chan>>
      BY <1>2 DEF StartRuns, lookups, Grows
    <3> QED BY <1>0, <3>1, LookupsStay
  <2>2. StoreHonest'
    <3>1. /\ index' = OpenObjectStore /\ UNCHANGED <<disk, puts, made, named>>
          /\ disk \in [Hash -> File]
      BY <1>2 DEF StartRuns, IInv, Types
    <3>2. /\ index' \in [Resource -> Hash \cup {None}]
          /\ \A r \in Resource : index'[r] # None =>
                Stored(index'[r]) /\ disk[index'[r]].r = r
      BY <3>1, OpenIndexes
    <3>3. IndexHonest'
      BY <3>1, <3>2, CacheAssumption DEF IndexHonest, IInv, OriginHonest, Stored
    <3>4. PutsHonest' /\ OriginHonest'
      BY <3>1 DEF IInv, PutsHonest, OriginHonest, Stored
    <3> QED BY <3>1, <3>2, <3>3, <3>4 DEF IInv, Types, StoreHonest
  <2> QED BY <1>0, <1>2, <2>1, <2>2 DEF StartRuns
<1>3. CASE \/ Start \/ MonitorReads \/ MonitorSets \/ StopBegins \/ ServeEnds \/ StopEnds
           \/ ReaderFails \/ Tick \/ SyncOnce \/ NextForum \/ Wait \/ Fetched \/ UNCHANGED vars
  <2>1. UNCHANGED <<disk, index, puts, made, named, look, busy, chan, net>>
    BY <1>3 DEF Start, MonitorReads, MonitorSets, StopBegins, ServeEnds, StopEnds, ReaderFails,
                Tick, SyncOnce, NextForum, Wait, Fetched, vars, disks, lookups
  <2>2. StoreHonest' /\ Grows
    BY <2>1, StoreStays DEF disks
  <2> QED BY <1>0, <2>1, <2>2, LookupsStay
<1>4. CASE PeerReplies
  <2>1. UNCHANGED <<disks, look, busy, chan>>
    BY <1>4 DEF PeerReplies, lookups
  <2>2. net' \subseteq [to : Lookup, body : Bodies]
    BY <1>0, <1>4 DEF PeerReplies
  <2> QED BY <1>0, <2>1, <2>2, StoreStays, LookupsStay
<1>5. CASE Routes
  <2>1. PICK m \in net :
          /\ net' = net \ {m}
          /\ chan' = IF look[m.to].at = "asking" /\ chan[m.to] = {}
                     THEN [chan EXCEPT ![m.to] = {m.body}] ELSE chan
    BY <1>5 DEF Routes
  <2>2. UNCHANGED <<disks, look, busy>>
    BY <1>5 DEF Routes
  <2>3. m.to \in Lookup /\ m.body \in Bodies
    BY <1>0
  <2>4. chan' \in [Lookup -> SUBSET Bodies]
    BY <1>0, <2>1, <2>3
  <2> QED BY <1>0, <2>1, <2>2, <2>4, StoreStays, LookupsStay
<1>6. CASE AcceptAnnouncement
  <2>1. PICK h \in Hash, r \in Resource : PutFile("loop", h, r, "peer")
    BY <1>6 DEF AcceptAnnouncement
  <2>2. UNCHANGED <<index, made, look, busy, chan, net>>
    BY <1>6 DEF AcceptAnnouncement, lookups
  <2>3. "loop" \in Writer /\ "loop" \notin Lookup
    BY CacheAssumption DEF Writer
  <2>4. StoreHonest' /\ Grows
    BY <2>1, <2>2, <2>3, PutFileKeeps
  <2> QED BY <1>0, <2>2, <2>4, LookupsStay
<1>7. CASE AnnouncementStored \/ Saved \/ SnapshotStored
  <2>1. PICK p \in puts : PutIndex(p)
    BY <1>7 DEF AnnouncementStored, Saved, SnapshotStored
  <2>2. UNCHANGED <<disk, made, named, look, busy, chan, net>>
    BY <1>7 DEF AnnouncementStored, Saved, SnapshotStored, lookups
  <2>3. StoreHonest' /\ Grows
    BY <2>1, <2>2, PutIndexKeeps DEF Grows
  <2> QED BY <1>0, <2>2, <2>3, LookupsStay
<1>8. CASE Begin \/ Join \/ GiveUp \/ LoopFailed \/ Shares
  <2>1. LookupsHonest'
    BY <1>8, LookupSteps
  <2>2. UNCHANGED <<disks, net>>
    BY <1>8 DEF Begin, Join, GiveUp, LoopFailed, Shares
  <2> QED BY <1>0, <2>1, <2>2, StoreStays
<1>9. CASE AcceptPeerObject
  BY <1>0, <1>9, AcceptKeeps DEF AcceptPeerObject
<1>10. CASE PeerObjectStored
  <2>1. PICK p \in puts :
          /\ p.who \in Lookup /\ PutIndex(p) /\ Finish(p.who, Object(p.h, p.r, "peer"))
          /\ UNCHANGED <<disk, made, named, net>>
    BY <1>10 DEF PeerObjectStored
  <2>2. StoreHonest' /\ Grows
    BY <2>1, PutIndexKeeps DEF Grows
  <2>3. /\ p.h \in Hash /\ p.r \in Resource /\ p.r \in named[p.h]
        /\ Key[p.who] = p.h \/ Key[p.who] = p.r
    BY <2>1 DEF IInv, Types, Put, PutsHonest
  <2>4. PICK o : o = Object(p.h, p.r, "peer")
    OBVIOUS
  <2>5. o \in Result /\ Honest(o, p.who, made, named)
    BY <2>3, <2>4 DEF Object, Provenance, Result, Honest
  <2>6. LookupsHonest'
    BY <2>1, <2>2, <2>4, <2>5, FinishKeeps
  <2> QED BY <1>0, <2>1, <2>2, <2>6
<1>11. CASE Save
  <2>1. PICK h \in Hash : PutFile("save", h, Res[h], "origin") /\ made' = made \cup {h}
    BY <1>11 DEF Save
  <2>2. UNCHANGED <<index, look, busy, chan, net>>
    BY <1>11 DEF Save, lookups
  <2>3. "save" \in Writer /\ "save" \notin Lookup /\ Res[h] \in Resource
    BY CacheAssumption DEF Writer, Resource
  <2>4. StoreHonest' /\ Grows
    BY <2>1, <2>2, <2>3, PutFileKeeps
  <2> QED BY <1>0, <2>2, <2>4, LookupsStay
<1>12. CASE StoreSnapshot
  <2>1. UNCHANGED <<index, look, busy, chan, net>>
    BY <1>12 DEF StoreSnapshot, lookups
  <2>2. CASE UNCHANGED <<disk, puts, made, named>>
    BY <1>0, <2>1, <2>2, StoreStays, LookupsStay DEF disks
  <2>3. CASE \E h \in Hash : PutFile("sync", h, Res[h], "origin") /\ made' = made \cup {h}
    <3>1. PICK h \in Hash : PutFile("sync", h, Res[h], "origin") /\ made' = made \cup {h}
      BY <2>3
    <3>2. "sync" \in Writer /\ "sync" \notin Lookup /\ Res[h] \in Resource
      BY CacheAssumption DEF Writer, Resource
    <3>3. StoreHonest' /\ Grows
      BY <2>1, <3>1, <3>2, PutFileKeeps
    <3> QED BY <1>0, <2>1, <3>3, LookupsStay
  <2> QED BY <1>12, <2>2, <2>3 DEF StoreSnapshot
<1> QED
  BY <1>1, <1>2, <1>3, <1>4, <1>5, <1>6, <1>7, <1>8, <1>9, <1>10, <1>11, <1>12 DEF Next

-----------------------------------------------------------------------------
\* The invariant holds in every state of the node, over restarts too, and with
\* a peer that sends any payload under any resource.
THEOREM InvHolds == Spec => []IInv
  BY InvInit, InvStep, PTL DEF Spec

\* Whatever payload the peer sends under whatever resource, and however
\* lookups, saves, announcements and the origin sync interleave: what the index
\* names is on disk and has been stored under that resource, each lookup has
\* the payload it asked for, or one that has been stored under the resource it
\* asked for, and only what this node has fetched itself, held as what it
\* fetched, is marked as a page of Flashback.  That the file still holds the
\* resource asked for is not said: a payload that comes again under another
\* resource takes it over.
THEOREM CacheIsHonest == Spec => []ObjectsHonest
<1>1. IInv => ObjectsHonest
  BY DEF IInv, IndexHonest, OriginHonest, ResultsHonest, Honest, ObjectsHonest
<1> QED BY <1>1, InvHolds, PTL

-----------------------------------------------------------------------------
(* The limiter.                                                            *)

LimitsInv == ages \in Seq(Nat) /\ WithinLimits

\* In a window that is not empty there is something to wait for.
LEMMA WindowDelays ==
    ASSUME ages \in Seq(Nat), NEW w \in Nat, Recent(w) # {}
    PROVE  RequestDelay(w) # 0
<1> DEFINE R == Recent(w)
           Less == OpToRel(<, Nat)
<1>1. R \subseteq Nat /\ R # {} /\ \A i \in R : ages[i] \in Nat /\ ages[i] < w
  BY DEF Recent
<1>2. \E i \in R : \A j \in R : i <= j
  <2>1. IsWellFoundedOn(Less, Nat)
    BY NatLessThanWellFounded
  <2>2. \E i \in R : \A j \in R : ~(<<j, i>> \in Less)
    <3> HIDE DEF R, Less
    <3> QED BY <1>1, <2>1, WFMin
  <2>3. \A i, j \in Nat : ~(<<j, i>> \in Less) => i <= j
    BY DEF OpToRel
  <2> HIDE DEF R, Less
  <2> QED BY <1>1, <2>2, <2>3
<1> DEFINE first == CHOOSE i \in R : \A j \in R : i <= j
<1>3. first \in R
  BY <1>2
<1>4. RequestDelay(w) = w - ages[first]
  BY <1>1 DEF RequestDelay
<1> HIDE DEF first, R
<1> QED BY <1>1, <1>3, <1>4

\* A request that passes comes a gap after the last, an hour after the one
\* PerHour before it, and a day after the one PerDay before it.
LEMMA PassesInTime ==
    ASSUME LimitsInv, Passes, NEW i \in DOMAIN ages
    PROVE  /\ ages[i] >= Gap
           /\ Len(ages) + 1 >= i + PerHour => ages[i] >= Hour
           /\ Len(ages) + 1 >= i + PerDay => ages[i] >= Day
<1> DEFINE n == Len(ages)
<1>1. /\ ages \in Seq(Nat) /\ n \in Nat /\ DOMAIN ages = 1..n /\ i \in 1..n
      /\ \A k \in 1..n : ages[k] \in Nat
      /\ {Gap, Hour, Day} \subseteq Nat /\ {PerHour, PerDay} \subseteq Nat \ {0}
  BY CacheAssumption DEF LimitsInv
<1>2. ages[i] >= ages[n]
  <2>1. i = n \/ n >= i + 1
    BY <1>1
  <2>2. n >= i + 1 => ages[i] >= ages[n] + Gap
    BY <1>1 DEF LimitsInv, WithinLimits, Spaced
  <2> QED BY <1>1, <2>1, <2>2
<1>3. ages[i] >= Gap
  BY <1>1, <1>2 DEF Passes
<1>4. \A k \in i..n : ages[k] <= ages[i]
  <2> SUFFICES ASSUME NEW k \in i..n PROVE ages[k] <= ages[i]
    OBVIOUS
  <2>1. k = i \/ k >= i + 1
    BY <1>1
  <2>2. k \in 1..n
    BY <1>1
  <2>3. k >= i + 1 => ages[i] >= ages[k] + Gap
    BY <1>1, <2>2 DEF LimitsInv, WithinLimits, Spaced
  <2> QED BY <1>1, <2>1, <2>2, <2>3
<1>5. ASSUME n + 1 >= i + PerHour, ~(ages[i] >= Hour) PROVE FALSE
  <2>1. i..n \subseteq Recent(Hour) /\ Recent(Hour) \subseteq 1..n
    BY <1>1, <1>4, <1>5 DEF Recent
  <2>2. IsFiniteSet(1..n) /\ IsFiniteSet(i..n) /\ Cardinality(i..n) = n - i + 1
    <3>1. 1 \in Int /\ i \in Int /\ n \in Int /\ ~(i > n)
      BY <1>1
    <3> HIDE DEF n
    <3> QED BY <3>1, FS_Interval
  <2>3. IsFiniteSet(Recent(Hour)) /\ Cardinality(i..n) <= Cardinality(Recent(Hour))
    BY <2>1, <2>2, FS_Subset
  <2>4. Cardinality(Recent(Hour)) \in Nat
    BY <2>3, FS_CardinalityType
  <2>5. Cardinality(Recent(Hour)) >= PerHour /\ Recent(Hour) # {}
    <3>1. n - i + 1 >= PerHour /\ i \in i..n
      BY <1>1, <1>5
    <3> HIDE DEF n
    <3> QED BY <1>1, <2>1, <2>2, <2>3, <2>4, <3>1
  <2> QED BY <1>1, <2>5, WindowDelays DEF Passes
<1>6. ASSUME n + 1 >= i + PerDay, ~(ages[i] >= Day) PROVE FALSE
  <2>1. n >= PerDay /\ i \in Recent(Day)
    BY <1>1, <1>6 DEF Recent
  <2> QED BY <1>1, <2>1, WindowDelays DEF Passes
<1> QED BY <1>1, <1>3, <1>5, <1>6

\* What is said of two requests stays true when both get older, when those
\* before them are forgotten, and when a request comes that passes.
LEMMA TickKeepsLimits ==
    ASSUME LimitsInv, Tick PROVE LimitsInv'
<1> DEFINE older == [i \in DOMAIN ages |-> ages[i] + 1]
           len == Len(ages)
<1>1. PICK n \in 0..len : ages' = SubSeq(older, n + 1, len)
  BY DEF Tick
<1>2. /\ ages \in Seq(Nat) /\ len \in Nat /\ DOMAIN ages = 1..len
      /\ \A i \in 1..len : ages[i] \in Nat /\ older[i] \in Nat /\ older[i] = ages[i] + 1
  BY DEF LimitsInv
<1>3. /\ ages' \in Seq(Nat) /\ DOMAIN ages' = 1..(len - n)
      /\ \A i \in 1..(len - n) : i + n \in 1..len /\ ages'[i] = ages[i + n] + 1
  <2> HIDE DEF older, len
  <2>1. n + 1 \in Int /\ len \in Int /\ \A i \in (n + 1)..len : older[i] \in Nat
    BY <1>2
  <2>2. /\ ages' \in Seq(Nat) /\ Len(ages') = IF n + 1 <= len THEN len - (n + 1) + 1 ELSE 0
        /\ \A i \in 1..(len - (n + 1) + 1) : ages'[i] = older[n + 1 + i - 1]
    BY <1>1, <2>1, SubSeqProperties
  <2>3. Len(ages') = len - n /\ len - (n + 1) + 1 = len - n
    BY <1>2, <2>2
  <2>4. \A i \in 1..(len - n) : i + n \in 1..len /\ n + 1 + i - 1 = i + n
    BY <1>2
  <2>5. \A i \in 1..(len - n) : ages'[i] = ages[i + n] + 1
    BY <1>2, <2>2, <2>3, <2>4
  <2> QED BY <2>2, <2>3, <2>4, <2>5
<1>4. ASSUME NEW k \in Nat, NEW d \in Nat, Spaced(k, d) PROVE Spaced(k, d)'
  <2> SUFFICES ASSUME NEW i \in DOMAIN ages', NEW j \in DOMAIN ages', j >= i + k
               PROVE  ages'[i] >= ages'[j] + d
    BY DEF Spaced
  <2> HIDE DEF older, len
  <2>1. /\ i \in 1..(len - n) /\ j \in 1..(len - n)
        /\ i + n \in DOMAIN ages /\ j + n \in DOMAIN ages
    BY <1>2, <1>3
  <2>2. j + n >= i + n + k
    BY <1>2, <2>1
  <2>3. ages[i + n] >= ages[j + n] + d
    BY <1>4, <2>1, <2>2 DEF Spaced
  <2>4. ages[i + n] \in Nat /\ ages[j + n] \in Nat
    BY <1>2, <2>1
  <2> QED BY <1>3, <2>1, <2>3, <2>4
<1> QED BY <1>3, <1>4, CacheAssumption DEF LimitsInv, WithinLimits

LEMMA WaitKeepsLimits ==
    ASSUME LimitsInv, Passes, ages' = Append(ages, 0) PROVE LimitsInv'
<1> DEFINE n == Len(ages)
<1>1. /\ ages \in Seq(Nat) /\ n \in Nat /\ DOMAIN ages = 1..n
      /\ ages' \in Seq(Nat) /\ DOMAIN ages' = 1..(n + 1)
      /\ ages'[n + 1] = 0 /\ \A i \in 1..n : ages'[i] = ages[i] /\ ages[i] \in Nat
  BY DEF LimitsInv
<1>2. ASSUME NEW k \in Nat \ {0}, NEW d \in Nat, Spaced(k, d),
             \A i \in DOMAIN ages : n + 1 >= i + k => ages[i] >= d
      PROVE  Spaced(k, d)'
  <2> SUFFICES ASSUME NEW i \in DOMAIN ages', NEW j \in DOMAIN ages', j >= i + k
               PROVE  ages'[i] >= ages'[j] + d
    BY DEF Spaced
  <2>1. i \in 1..n /\ j \in 1..(n + 1)
    BY <1>1
  <2>2. CASE j = n + 1
    BY <1>1, <1>2, <2>1, <2>2
  <2>3. CASE j # n + 1
    <3>1. j \in 1..n
      BY <1>1, <2>1, <2>3
    <3> QED BY <1>1, <1>2, <2>1, <3>1 DEF Spaced
  <2> QED BY <2>2, <2>3
<1>3. Spaced(1, Gap)' /\ Spaced(PerHour, Hour)' /\ Spaced(PerDay, Day)'
  <2>1. /\ Spaced(1, Gap) /\ Spaced(PerHour, Hour) /\ Spaced(PerDay, Day)
        /\ {Gap, Hour, Day} \subseteq Nat /\ {1, PerHour, PerDay} \subseteq Nat \ {0}
    BY CacheAssumption DEF LimitsInv, WithinLimits
  <2> QED BY <1>2, <2>1, PassesInTime
<1> QED BY <1>1, <1>3 DEF LimitsInv, WithinLimits

\* However long it runs, the origin sync keeps the gap and the limits of an
\* hour and of a day, for every choice of them: a page is fetched only after
\* Wait has let it pass.
THEOREM LimitsAreKept == Spec => []WithinLimits
<1>1. Init => LimitsInv
  BY DEF Init, LimitsInv, WithinLimits, Spaced
<1>2. LimitsInv /\ [Next]_vars => LimitsInv'
  <2> SUFFICES ASSUME LimitsInv, [Next]_vars PROVE LimitsInv'
    OBVIOUS
  <2>1. CASE Restart
    <3>1. ages' = <<>>
      BY <2>1 DEF Restart
    <3> QED BY <3>1 DEF LimitsInv, WithinLimits, Spaced
  <2>2. CASE Tick
    BY <2>2, TickKeepsLimits
  <2>3. CASE Wait
    <3>1. CASE Passes /\ ages' = Append(ages, 0)
      BY <3>1, WaitKeepsLimits
    <3>2. CASE UNCHANGED ages
      BY <3>2 DEF LimitsInv, WithinLimits, Spaced
    <3> QED BY <2>3, <3>1, <3>2 DEF Wait
  <2>4. CASE UNCHANGED ages
    BY <2>4 DEF LimitsInv, WithinLimits, Spaced
  <2>5. Next \/ UNCHANGED vars => Restart \/ Tick \/ Wait \/ UNCHANGED ages
    BY DEF Next, vars, syncs, Start, StartRuns, MonitorReads, MonitorSets, StopBegins, ServeEnds,
           StopEnds, ReaderFails, PeerReplies, Routes, AcceptAnnouncement, AnnouncementStored,
           Begin, Join, GiveUp, LoopFailed, AcceptPeerObject, PeerObjectStored, Shares, Save,
           Saved, SyncOnce, NextForum, Fetched, StoreSnapshot, SnapshotStored
  <2> QED BY <2>1, <2>2, <2>3, <2>4, <2>5
<1>3. LimitsInv => WithinLimits
  BY DEF LimitsInv
<1> QED BY <1>1, <1>2, <1>3, PTL DEF Spec
=============================================================================
