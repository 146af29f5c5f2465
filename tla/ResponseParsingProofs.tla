------------------------ MODULE ResponseParsingProofs ------------------------
(***************************************************************************)
(* Proofs about ResponseParsing, for every word size, every set of names,  *)
(* leaves and counters, and responses with any number of updates.          *)
(*                                                                         *)
(* The loop over the updates is a state machine, so that what it computes  *)
(* is shown by an invariant about the updates decoded so far.              *)
(***************************************************************************)
EXTENDS ResponseParsing, TLAPS

-----------------------------------------------------------------------------
(* THE INDUCTIVE INVARIANT                                                 *)

CarriersSoFar(l, val) == {i \in Carriers(l, val) : i <= j}

(* Source, as far as the updates have been decoded. *)
SourceSoFar(l, i) ==
  \/ i \in CarriersSoFar(l, "proto") /\ \A k \in CarriersSoFar(l, "proto") : k <= i
  \/ /\ CarriersSoFar(l, "proto") = {}
     /\ i \in CarriersSoFar(l, "json") /\ \A k \in CarriersSoFar(l, "json") : i <= k

(* The flattened map has the leaves carried so far, each with the value of *)
(* the update that counts for it.                                          *)
ResultInv ==
  \A l \in Leaves :
    /\ l \in DOMAIN result =>
         \E i \in Valued : SourceSoFar(l, i) /\ result[l] = SourceValue(l, i)
    /\ l \notin DOMAIN result =>
         CarriersSoFar(l, "proto") = {} /\ CarriersSoFar(l, "json") = {}

(* Encoding and path are those of the last value decoded. *)
LastInv ==
  \/ (\A k \in Valued : j < k) /\ encoding = "PROTO"
  \/ \E i \in Valued :
       /\ i <= j
       /\ \A k \in Valued : k <= j => k <= i
       /\ encoding = IF response.updates[i].val = "proto" THEN "PROTO" ELSE "JSON_IETF"
       /\ response.updates[i].val # "proto" => path = response.updates[i].path

(* How far the function is. *)
Decoded == pc \in {"names", "stats"} \/ outcome \in {"SUCCESS", "exception"}

PlaceInv ==
  /\ pc = "prefix" => j = 0
  /\ pc # "done" <=> outcome = "pending"
  /\ Decoded => j = Len(response.updates) /\ names = PrintedPath
  /\ pc = "stats" \/ outcome = "SUCCESS" => names.policy # NoName /\ names.rule # NoName

ParsingInv == ParsingTypeOK /\ ResultInv /\ LastInv /\ PlaceInv /\ CountersExact /\ ThrowsExact

-----------------------------------------------------------------------------
(* LEMMAS ABOUT THE OPERATORS                                              *)

(* What stoull returns fits the word, whatever the sign of the number. *)
LEMMA StoullRange ==
  ASSUME NEW v \in Int
  PROVE  Stoull(v) \in 0 .. WordSize - 1
<1>1. WordSize \in Nat /\ WordSize > 0
  BY ParsingAssumption
<1> QED
  BY <1>1 DEF Stoull

(* insert and operator[] give a map with the leaves of both maps; they     *)
(* differ in whose values they keep.                                       *)
LEMMA InsertMap ==
  ASSUME NEW m, NEW e, IsMap(m), IsMap(e)
  PROVE  /\ IsMap(Insert(m, e))
         /\ DOMAIN Insert(m, e) = DOMAIN m \cup DOMAIN e
         /\ \A l \in DOMAIN m : Insert(m, e)[l] = m[l]
         /\ \A l \in DOMAIN e \ DOMAIN m : Insert(m, e)[l] = e[l]
  BY DEF Insert, IsMap

(* Assigning the entries of e overwrites those of m. *)
LEMMA AssignMap ==
  ASSUME NEW m, NEW e, IsMap(m), IsMap(e)
  PROVE  /\ IsMap(Assign(m, e))
         /\ DOMAIN Assign(m, e) = DOMAIN m \cup DOMAIN e
         /\ \A l \in DOMAIN e : Assign(m, e)[l] = e[l]
         /\ \A l \in DOMAIN m \ DOMAIN e : Assign(m, e)[l] = m[l]
  BY DEF Assign, IsMap

(* Carriers are numbers of updates that have a value. *)
LEMMA CarriersAreUpdates ==
  ASSUME ParsingTypeOK, NEW l, NEW val, NEW i \in Carriers(l, val)
  PROVE  i \in Valued /\ i \in 1 .. Len(response.updates) /\ i \in Nat
  BY DEF Carriers, Valued, ParsingTypeOK, IsResponse

(* Decoding one more update adds it to the carriers of its leaves. *)
LEMMA CarriersNext ==
  ASSUME ParsingTypeOK, response' = response, j' = j + 1, NEW l, NEW val
  PROVE  /\ j + 1 \in Carriers(l, val) =>
              CarriersSoFar(l, val)' = CarriersSoFar(l, val) \cup {j + 1}
         /\ j + 1 \notin Carriers(l, val) =>
              CarriersSoFar(l, val)' = CarriersSoFar(l, val)
<1>1. Carriers(l, val)' = Carriers(l, val)
  BY DEF Carriers, Valued
<1>2. \A k \in Carriers(l, val) : k \in Nat
  BY CarriersAreUpdates
<1>3. j \in Nat
  BY DEF ParsingTypeOK
<1>4. \A i : i \in CarriersSoFar(l, val)' <=>
           \/ i \in CarriersSoFar(l, val)
           \/ i = j + 1 /\ j + 1 \in Carriers(l, val)
  BY <1>1, <1>2, <1>3 DEF CarriersSoFar
<1> QED
  BY <1>4

(* What reads only the response and j stays when they do. *)
LEMMA SameUpdates ==
  ASSUME response' = response
  PROVE  /\ Valued' = Valued
         /\ \A l, val : Carriers(l, val)' = Carriers(l, val)
         /\ \A l, i : Source(l, i)' = Source(l, i)
         /\ \A l, i : SourceValue(l, i)' = SourceValue(l, i)
         /\ j' = j => /\ \A l, val : CarriersSoFar(l, val)' = CarriersSoFar(l, val)
                      /\ \A l, i : SourceSoFar(l, i)' = SourceSoFar(l, i)
  BY DEF Valued, Carriers, Source, SourceValue, CarriersSoFar, SourceSoFar

(* At most one update gives a leaf its value. *)
LEMMA SourceUnique ==
  ASSUME ParsingTypeOK, NEW l, NEW i, NEW k, Source(l, i), Source(l, k)
  PROVE  i = k
<1>1. \A val : \A n \in Carriers(l, val) : n \in Nat
  BY CarriersAreUpdates
<1> QED
  BY <1>1 DEF Source

(* When all updates are decoded, the source so far is the source. *)
LEMMA AllDecoded ==
  ASSUME ParsingTypeOK, j = Len(response.updates), NEW l
  PROVE  /\ \A val : CarriersSoFar(l, val) = Carriers(l, val)
         /\ \A i : SourceSoFar(l, i) = Source(l, i)
<1>1. ASSUME NEW val PROVE CarriersSoFar(l, val) = Carriers(l, val)
  <2>1. \A n \in Carriers(l, val) : n <= j
    BY CarriersAreUpdates
  <2> QED
    BY <2>1 DEF CarriersSoFar
<1> QED
  BY <1>1 DEF SourceSoFar, Source

-----------------------------------------------------------------------------
(* THE INVARIANT IS INDUCTIVE                                              *)

(* The invariant holds when check_response is entered. *)
LEMMA ParsingInit == Init => ParsingInv
<1> SUFFICES ASSUME Init PROVE ParsingInv
  OBVIOUS
<1> USE DEF Init
<1>1. IsResponse(response)
  BY ParsingAssumption
<1>2. ParsingTypeOK
  <2>1. IsMap(result)
    BY DEF IsMap, EmptyMap
  <2>2. path \in Path /\ names \in Path
    BY ParsingAssumption DEF Path, NoNames
  <2>3. stat \in [Counters -> 0 .. WordSize - 1]
    BY ParsingAssumption DEF ZeroStat
  <2>4. j \in 0 .. Len(response.updates)
    BY <1>1 DEF IsResponse
  <2> QED
    BY <1>1, <2>1, <2>2, <2>3, <2>4 DEF ParsingTypeOK, Encoding, Outcome
<1>3. \A l, val : CarriersSoFar(l, val) = {}
  BY <1>2, CarriersAreUpdates DEF CarriersSoFar, ParsingTypeOK, Valued, IsResponse
<1>4. ResultInv
  BY <1>3 DEF ResultInv, EmptyMap
<1>5. LastInv
  BY <1>1 DEF LastInv, Valued, IsResponse
<1> QED
  BY <1>2, <1>4, <1>5 DEF ParsingInv, PlaceInv, Decoded, CountersExact, ThrowsExact

(* While the function has not returned, nothing is claimed of its outcome. *)
LEMMA NothingReturned ==
  ASSUME outcome \notin {"SUCCESS", "exception"}
  PROVE  CountersExact /\ ThrowsExact
  BY DEF CountersExact, ThrowsExact

(* The checks before the loop. *)
LEMMA CheckPrefixStep ==
  ASSUME ParsingInv, CheckPrefix
  PROVE  ParsingInv'
<1> USE DEF ParsingInv
<1>1. /\ UNCHANGED <<response, j, encoding, path, result, names, stat>>
      /\ pc = "prefix" /\ j = 0 /\ outcome = "pending"
  BY DEF CheckPrefix, PlaceInv
<1>2. \/ pc' = "done" /\ outcome' \in Error
      \/ pc' = "updates" /\ outcome' = "pending"
  BY <1>1 DEF CheckPrefix, Done, Error
<1>3. ParsingTypeOK'
  BY <1>1, <1>2 DEF ParsingTypeOK, Outcome
<1>4. ResultInv'
  BY <1>1, SameUpdates DEF ResultInv
<1>5. LastInv'
  BY <1>1, SameUpdates DEF LastInv
<1>6. PlaceInv'
  BY <1>1, <1>2 DEF PlaceInv, Decoded, Error
<1>7. outcome' \notin {"SUCCESS", "exception"}
  BY <1>2 DEF Error
<1>8. CountersExact' /\ ThrowsExact'
  BY <1>7 DEF CountersExact, ThrowsExact
<1> QED
  BY <1>3, <1>4, <1>5, <1>6, <1>8

(* A round of the loop: the flattened map ... *)
LEMMA DecodeResult ==
  ASSUME ParsingInv, DecodeUpdate
  PROVE  ResultInv' /\ IsMap(result)'
<1>n. PICK n : n = j + 1
  OBVIOUS
<1>u. PICK u : u = response.updates[n]
  OBVIOUS
<1> USE DEF ParsingInv
<1>1. /\ response' = response /\ n = j + 1 /\ j' = n
      /\ n \in 1 .. Len(response.updates) /\ n \in Nat /\ j \in Nat
  BY <1>n DEF DecodeUpdate, ParsingTypeOK, IsResponse
<1>2. IsUpdate(u) /\ IsMap(u.entries) /\ IsMap(result)
  BY <1>1, <1>u DEF ParsingTypeOK, IsResponse, IsUpdate
<1>3. ASSUME NEW l, NEW val
      PROVE  /\ n \in Carriers(l, val) =>
                  CarriersSoFar(l, val)' = CarriersSoFar(l, val) \cup {n}
             /\ n \notin Carriers(l, val) =>
                  CarriersSoFar(l, val)' = CarriersSoFar(l, val)
  BY <1>1, CarriersNext
<1>4. /\ Valued' = Valued
      /\ \A l, i : SourceValue(l, i)' = SourceValue(l, i)
  BY <1>1, SameUpdates
<1>5. ASSUME NEW l, NEW val, NEW i \in CarriersSoFar(l, val)
      PROVE  i \in Nat /\ i <= j
  BY CarriersAreUpdates DEF CarriersSoFar
<1>6. ASSUME NEW l, NEW val
      PROVE  n \in Carriers(l, val) <=>
               u.has_path /\ u.val # "none" /\ u.val = val /\ l \in DOMAIN u.entries
  BY <1>1, <1>u DEF Carriers, Valued
<1>7. CASE ~u.has_path \/ u.val \in {"none", "malformed"}
  <2>1. result' = result
    BY <1>7, <1>n, <1>u DEF DecodeUpdate
  <2>2. ASSUME NEW l
        PROVE  /\ CarriersSoFar(l, "proto")' = CarriersSoFar(l, "proto")
               /\ CarriersSoFar(l, "json")' = CarriersSoFar(l, "json")
    <3>1. n \notin Carriers(l, "proto") /\ n \notin Carriers(l, "json")
      BY <1>6, <1>7
    <3> QED
      BY <1>3, <3>1
  <2>3. ASSUME NEW l, NEW i PROVE SourceSoFar(l, i)' = SourceSoFar(l, i)
    BY <2>2 DEF SourceSoFar
  <2> QED
    BY <1>2, <1>4, <2>1, <2>2, <2>3 DEF ResultInv
<1>8. CASE u.has_path /\ u.val = "json"
  <2>1. result' = Insert(result, u.entries)
    BY <1>8, <1>n, <1>u DEF DecodeUpdate
  <2>2. /\ IsMap(result')
        /\ DOMAIN result' = DOMAIN result \cup DOMAIN u.entries
        /\ \A l \in DOMAIN result : result'[l] = result[l]
        /\ \A l \in DOMAIN u.entries \ DOMAIN result : result'[l] = u.entries[l]
    BY <1>2, <2>1, InsertMap
  <2>3. ASSUME NEW l
        PROVE  /\ CarriersSoFar(l, "proto")' = CarriersSoFar(l, "proto")
               /\ l \in DOMAIN u.entries =>
                    CarriersSoFar(l, "json")' = CarriersSoFar(l, "json") \cup {n}
               /\ l \notin DOMAIN u.entries =>
                    CarriersSoFar(l, "json")' = CarriersSoFar(l, "json")
    <3>1. /\ n \notin Carriers(l, "proto")
          /\ n \in Carriers(l, "json") <=> l \in DOMAIN u.entries
      BY <1>6, <1>8
    <3> QED
      BY <1>3, <3>1
  <2>4. ASSUME NEW l, NEW i, SourceSoFar(l, i)
        PROVE  SourceSoFar(l, i)'
    <3>1. \A k \in CarriersSoFar(l, "json") : k \in Nat /\ k <= j
      BY <1>5
    <3> QED
      BY <1>1, <2>3, <2>4, <3>1 DEF SourceSoFar
  <2>5. ASSUME NEW l \in Leaves, l \in DOMAIN u.entries, l \notin DOMAIN result
        PROVE  SourceSoFar(l, n)' /\ n \in Valued
    <3>1. CarriersSoFar(l, "proto") = {} /\ CarriersSoFar(l, "json") = {}
      BY <2>5 DEF ResultInv
    <3>2. CarriersSoFar(l, "proto")' = {} /\ CarriersSoFar(l, "json")' = {n}
      BY <2>3, <2>5, <3>1
    <3>3. n \in Valued
      BY <1>1, <1>8, <1>u DEF Valued
    <3> QED
      BY <1>1, <3>2, <3>3 DEF SourceSoFar
  <2>6. ASSUME NEW l \in Leaves, l \in DOMAIN result'
        PROVE  \E i \in Valued : SourceSoFar(l, i)' /\ result'[l] = SourceValue(l, i)
    <3>1. CASE l \in DOMAIN result
      <4>1. PICK i \in Valued : SourceSoFar(l, i) /\ result[l] = SourceValue(l, i)
        BY <3>1 DEF ResultInv
      <4> QED
        BY <2>2, <2>4, <3>1, <4>1
    <3>2. CASE l \notin DOMAIN result
      BY <2>2, <2>5, <2>6, <3>2, <1>u DEF SourceValue
    <3> QED
      BY <3>1, <3>2
  <2>7. ASSUME NEW l \in Leaves, l \notin DOMAIN result'
        PROVE  CarriersSoFar(l, "proto")' = {} /\ CarriersSoFar(l, "json")' = {}
    BY <2>2, <2>3, <2>7 DEF ResultInv
  <2> QED
    BY <1>4, <2>2, <2>6, <2>7 DEF ResultInv
<1>9. CASE u.has_path /\ u.val = "proto"
  <2>1. result' = Assign(result, u.entries)
    BY <1>9, <1>n, <1>u DEF DecodeUpdate
  <2>2. /\ IsMap(result')
        /\ DOMAIN result' = DOMAIN result \cup DOMAIN u.entries
        /\ \A l \in DOMAIN u.entries : result'[l] = u.entries[l]
        /\ \A l \in DOMAIN result \ DOMAIN u.entries : result'[l] = result[l]
    <3> DEFINE m == Assign(result, u.entries)
    <3>1. /\ IsMap(m)
          /\ DOMAIN m = DOMAIN result \cup DOMAIN u.entries
          /\ \A l \in DOMAIN u.entries : m[l] = u.entries[l]
          /\ \A l \in DOMAIN result \ DOMAIN u.entries : m[l] = result[l]
      BY <1>2, AssignMap
    <3> QED
      BY <2>1, <3>1
  <2>3. ASSUME NEW l
        PROVE  /\ CarriersSoFar(l, "json")' = CarriersSoFar(l, "json")
               /\ l \in DOMAIN u.entries =>
                    CarriersSoFar(l, "proto")' = CarriersSoFar(l, "proto") \cup {n}
               /\ l \notin DOMAIN u.entries =>
                    CarriersSoFar(l, "proto")' = CarriersSoFar(l, "proto")
    <3>1. /\ n \notin Carriers(l, "json")
          /\ n \in Carriers(l, "proto") <=> l \in DOMAIN u.entries
      BY <1>6, <1>9
    <3> QED
      BY <1>3, <3>1
  <2>4. ASSUME NEW l, l \notin DOMAIN u.entries, NEW i
        PROVE  SourceSoFar(l, i)' = SourceSoFar(l, i)
    BY <2>3, <2>4 DEF SourceSoFar
  <2>5. ASSUME NEW l \in DOMAIN u.entries
        PROVE  SourceSoFar(l, n)' /\ n \in Valued
    <3>1. \A k \in CarriersSoFar(l, "proto") : k \in Nat /\ k <= j
      BY <1>5
    <3>2. n \in Valued
      BY <1>1, <1>9, <1>u DEF Valued
    <3> QED
      BY <1>1, <2>3, <3>1, <3>2 DEF SourceSoFar
  <2>6. ASSUME NEW l \in Leaves, l \in DOMAIN result'
        PROVE  \E i \in Valued : SourceSoFar(l, i)' /\ result'[l] = SourceValue(l, i)
    <3>1. CASE l \in DOMAIN u.entries
      BY <2>2, <2>5, <3>1, <1>u DEF SourceValue
    <3>2. CASE l \notin DOMAIN u.entries
      <4>1. PICK i \in Valued : SourceSoFar(l, i) /\ result[l] = SourceValue(l, i)
        BY <2>2, <2>6, <3>2 DEF ResultInv
      <4> QED
        BY <2>2, <2>4, <2>6, <3>2, <4>1
    <3> QED
      BY <3>1, <3>2
  <2>7. ASSUME NEW l \in Leaves, l \notin DOMAIN result'
        PROVE  CarriersSoFar(l, "proto")' = {} /\ CarriersSoFar(l, "json")' = {}
    BY <2>2, <2>3, <2>7 DEF ResultInv
  <2> QED
    BY <1>4, <2>2, <2>6, <2>7 DEF ResultInv
<1> QED
  BY <1>2, <1>7, <1>8, <1>9 DEF IsUpdate

(* ... and the encoding and the path. *)
LEMMA DecodeLast ==
  ASSUME ParsingInv, DecodeUpdate
  PROVE  LastInv' /\ path' \in Path /\ encoding' \in Encoding
<1> DEFINE u == response.updates[j + 1]
<1> USE DEF ParsingInv
<1>1. /\ response' = response /\ j' = j + 1 /\ j + 1 \in 1 .. Len(response.updates)
      /\ j \in Nat
  BY DEF DecodeUpdate, ParsingTypeOK, IsResponse
<1>2. IsUpdate(u)
  BY <1>1 DEF ParsingTypeOK, IsResponse
<1>3. Valued' = Valued /\ \A k \in Valued : k \in Nat
  BY <1>1, SameUpdates DEF Valued, ParsingTypeOK, IsResponse
<1>4. j + 1 \in Valued <=> u.has_path /\ u.val # "none"
  BY <1>1 DEF Valued
<1>5. path \in Path /\ encoding \in Encoding
  BY DEF ParsingTypeOK
<1>6. CASE ~u.has_path \/ u.val = "none"
  <2>1. UNCHANGED <<encoding, path>>
    BY <1>6 DEF DecodeUpdate
  <2>2. \A k \in Valued : (k <= j + 1 <=> k <= j) /\ (j + 1 < k <=> j < k)
    BY <1>1, <1>3, <1>4, <1>6
  <2> QED
    BY <1>1, <1>3, <1>5, <2>1, <2>2 DEF LastInv
<1>7. CASE u.has_path /\ u.val # "none"
  <2>1. /\ encoding' = IF u.val = "proto" THEN "PROTO" ELSE "JSON_IETF"
        /\ u.val # "proto" => path' = u.path
        /\ path' \in {path, u.path}
    BY <1>2, <1>7 DEF DecodeUpdate, IsUpdate
  <2>2. j + 1 \in Valued /\ \A k \in Valued : k <= j + 1 => k <= j + 1
    BY <1>4, <1>7
  <2>3. LastInv'
    BY <1>1, <1>3, <2>1, <2>2 DEF LastInv
  <2> QED
    BY <1>2, <1>5, <2>1, <2>3 DEF IsUpdate, Encoding
<1> QED
  BY <1>6, <1>7

(* The loop over the updates keeps the invariant: the counters, the last   *)
(* values and the result are those of the updates decoded so far.          *)
LEMMA DecodeUpdateStep ==
  ASSUME ParsingInv, DecodeUpdate
  PROVE  ParsingInv'
<1> USE DEF ParsingInv
<1>1. /\ UNCHANGED <<response, pc, names, stat, outcome>>
      /\ pc = "updates" /\ outcome = "pending"
      /\ j' \in 0 .. Len(response.updates)
  BY DEF DecodeUpdate, PlaceInv, ParsingTypeOK, IsResponse
<1>2. ParsingTypeOK'
  BY <1>1, DecodeResult, DecodeLast DEF ParsingTypeOK
<1>3. PlaceInv'
  BY <1>1 DEF PlaceInv, Decoded
<1>4. CountersExact' /\ ThrowsExact'
  BY <1>1 DEF CountersExact, ThrowsExact
<1> QED
  BY <1>2, <1>3, <1>4, DecodeResult, DecodeLast

(* The end of the loop, where the path that was printed is looked at. *)
LEMMA EndUpdatesStep ==
  ASSUME ParsingInv, EndUpdates
  PROVE  ParsingInv'
<1> USE DEF ParsingInv
<1>1. /\ UNCHANGED <<response, j, encoding, path, result, stat, outcome>>
      /\ pc = "updates" /\ pc' = "names" /\ outcome = "pending"
      /\ j = Len(response.updates)
      /\ names' = PrintedPath
  BY DEF EndUpdates, PlaceInv
<1>2. ParsingTypeOK'
  <2>1. PrintedPath \in Path
    BY DEF PrintedPath, ParsingTypeOK, IsResponse
  <2> QED
    BY <1>1, <2>1 DEF ParsingTypeOK
<1>3. ResultInv' /\ LastInv'
  BY <1>1, SameUpdates DEF ResultInv, LastInv
<1>4. PlaceInv'
  BY <1>1 DEF PlaceInv, Decoded, PrintedPath
<1>5. CountersExact' /\ ThrowsExact'
  BY <1>1 DEF CountersExact, ThrowsExact
<1> QED
  BY <1>2, <1>3, <1>4, <1>5

(* The checks of the names. *)
LEMMA CheckNamesStep ==
  ASSUME ParsingInv, CheckNames
  PROVE  ParsingInv'
<1> USE DEF ParsingInv
<1>1. /\ UNCHANGED <<response, j, encoding, path, result, names, stat>>
      /\ pc = "names" /\ outcome = "pending"
  BY DEF CheckNames, PlaceInv
<1>2. \/ pc' = "done" /\ outcome' \in Error
      \/ /\ pc' = "stats" /\ outcome' = "pending"
         /\ names.policy # NoName /\ names.rule # NoName
  BY <1>1 DEF CheckNames, Done, Error
<1>3. ParsingTypeOK'
  BY <1>1, <1>2 DEF ParsingTypeOK, Outcome
<1>4. ResultInv' /\ LastInv'
  BY <1>1, SameUpdates DEF ResultInv, LastInv
<1>5. PlaceInv'
  BY <1>1, <1>2 DEF PlaceInv, Decoded, PrintedPath, Error
<1>6. CountersExact' /\ ThrowsExact'
  BY <1>2 DEF CountersExact, ThrowsExact, Error
<1> QED
  BY <1>3, <1>4, <1>5, <1>6

(* When the loop has ended, the map gives each leaf its source's value. *)
LEMMA ResultComplete ==
  ASSUME ParsingInv, j = Len(response.updates), NEW l \in Leaves
  PROVE  /\ l \in DOMAIN result =>
              \E i \in Valued : Source(l, i) /\ result[l] = SourceValue(l, i)
         /\ l \notin DOMAIN result => \A i \in Valued : ~Source(l, i)
         /\ \A i \in Valued :
              Source(l, i) => l \in DOMAIN result /\ result[l] = SourceValue(l, i)
<1>1. ParsingTypeOK /\ ResultInv
  BY DEF ParsingInv
<1>2. l \in DOMAIN result =>
        \E i \in Valued : Source(l, i) /\ result[l] = SourceValue(l, i)
  BY <1>1, AllDecoded DEF ResultInv
<1>3. l \notin DOMAIN result => \A i \in Valued : ~Source(l, i)
  <2>1. l \notin DOMAIN result =>
          Carriers(l, "proto") = {} /\ Carriers(l, "json") = {}
    BY <1>1, AllDecoded DEF ResultInv
  <2> QED
    BY <2>1 DEF Source
<1>4. ASSUME NEW i \in Valued, Source(l, i)
      PROVE  l \in DOMAIN result /\ result[l] = SourceValue(l, i)
  BY <1>1, <1>2, <1>3, <1>4, SourceUnique
<1> QED
  BY <1>2, <1>3, <1>4

(* The conversion to a PbrBasicStat. *)
LEMMA ToStatsStep ==
  ASSUME ParsingInv, ToStats
  PROVE  ParsingInv'
<1> USE DEF ParsingInv
<1>1. /\ UNCHANGED <<response, j, encoding, path, result, names>>
      /\ pc = "stats" /\ pc' = "done"
      /\ j = Len(response.updates) /\ names = PrintedPath
      /\ names.policy # NoName /\ names.rule # NoName
      /\ outcome' \in {"SUCCESS", "exception"}
  BY DEF ToStats, Done, PlaceInv, Decoded
<1>2. Counters \subseteq Leaves
  BY ParsingAssumption
<1>3. IsMap(result)
  BY DEF ParsingTypeOK
<1>4. ResultInv' /\ LastInv'
  BY <1>1, SameUpdates DEF ResultInv, LastInv
<1>5. PlaceInv'
  BY <1>1 DEF PlaceInv, Decoded, PrintedPath
<1>6. /\ Valued' = Valued
      /\ \A l, i : Source(l, i)' = Source(l, i)
      /\ \A l, i : SourceValue(l, i)' = SourceValue(l, i)
  BY <1>1, SameUpdates
<1>7. CASE \E c \in Counters \cap DOMAIN result : Throws(result[c])
  <2>1. outcome' = "exception" /\ stat' = stat
    BY <1>7 DEF ToStats, Done
  <2>2. ParsingTypeOK'
    BY <1>1, <2>1 DEF ParsingTypeOK, Outcome
  <2>3. ThrowsExact'
    <3>1. PICK c \in Counters \cap DOMAIN result : Throws(result[c])
      BY <1>7
    <3>2. PICK i \in Valued : Source(c, i) /\ result[c] = SourceValue(c, i)
      BY <1>1, <1>2, <3>1, ResultComplete
    <3> QED
      BY <1>6, <3>1, <3>2 DEF ThrowsExact
  <2>4. CountersExact'
    BY <2>1 DEF CountersExact
  <2> QED
    BY <1>4, <1>5, <2>2, <2>3, <2>4
<1>8. CASE ~\E c \in Counters \cap DOMAIN result : Throws(result[c])
  <2>1. /\ outcome' = "SUCCESS"
        /\ stat' = [c \in Counters |->
                      IF c \in DOMAIN result THEN Stoull(result[c]) ELSE 0]
    BY <1>8 DEF ToStats, Done
  <2>2. ParsingTypeOK'
    <3>1. ASSUME NEW c \in Counters
          PROVE  (IF c \in DOMAIN result THEN Stoull(result[c]) ELSE 0)
                   \in 0 .. WordSize - 1
      <4>1. WordSize \in Nat /\ WordSize > 0
        BY ParsingAssumption
      <4>2. c \in DOMAIN result => Stoull(result[c]) \in 0 .. WordSize - 1
        BY <1>3, StoullRange DEF IsMap
      <4> QED
        BY <4>1, <4>2
    <3>2. stat' \in [Counters -> 0 .. WordSize - 1]
      BY <2>1, <3>1
    <3> QED
      BY <1>1, <2>1, <3>2 DEF ParsingTypeOK, Outcome
  <2>3. ASSUME NEW c \in Counters
        PROVE  /\ \A i \in Valued : Source(c, i) =>
                    ~Throws(SourceValue(c, i)) /\ stat'[c] = Stoull(SourceValue(c, i))
               /\ (\A i \in Valued : ~Source(c, i)) => stat'[c] = 0
    <3>1. stat'[c] = IF c \in DOMAIN result THEN Stoull(result[c]) ELSE 0
      BY <2>1
    <3>2. ASSUME NEW i \in Valued, Source(c, i)
          PROVE  ~Throws(SourceValue(c, i)) /\ stat'[c] = Stoull(SourceValue(c, i))
      <4>1. c \in DOMAIN result /\ result[c] = SourceValue(c, i)
        BY <1>1, <1>2, <3>2, ResultComplete
      <4> QED
        BY <1>8, <3>1, <4>1
    <3>3. ASSUME \A i \in Valued : ~Source(c, i) PROVE stat'[c] = 0
      <4>1. c \notin DOMAIN result
        BY <1>1, <1>2, <3>3, ResultComplete
      <4> QED
        BY <3>1, <4>1
    <3> QED
      BY <3>2, <3>3
  <2>4. CountersExact'
    BY <1>6, <2>3 DEF CountersExact
  <2>5. ThrowsExact'
    BY <2>1 DEF ThrowsExact
  <2> QED
    BY <1>4, <1>5, <2>2, <2>4, <2>5
<1> QED
  BY <1>7, <1>8

(* The invariant is inductive. *)
LEMMA ParsingStep == ParsingInv /\ [Next]_vars => ParsingInv'
<1> SUFFICES ASSUME ParsingInv, [Next]_vars PROVE ParsingInv'
  OBVIOUS
<1>1. CASE UNCHANGED vars
  <2>1. /\ ParsingTypeOK' /\ PlaceInv'
    BY <1>1 DEF vars, ParsingInv, ParsingTypeOK, PlaceInv, Decoded, PrintedPath
  <2>2. ResultInv' /\ LastInv' /\ CountersExact' /\ ThrowsExact'
    BY <1>1, SameUpdates
    DEF vars, ParsingInv, ResultInv, LastInv, CountersExact, ThrowsExact
  <2> QED
    BY <2>1, <2>2 DEF ParsingInv
<1>2. CASE Returned
  BY <1>1, <1>2 DEF Returned
<1> QED
  BY <1>1, <1>2, CheckPrefixStep, DecodeUpdateStep, EndUpdatesStep,
     CheckNamesStep, ToStatsStep DEF Next

-----------------------------------------------------------------------------
(* THE THEOREMS                                                            *)

(* The invariant holds in every state of check_response. *)
THEOREM ParsingInvariance == Spec => []ParsingInv
<1> QED
  BY ParsingInit, ParsingStep, PTL DEF Spec

(* The types, and with them that a counter never leaves its 64 bits. *)
THEOREM ParsingTypeCorrect == Spec => []ParsingTypeOK
<1>1. ParsingInv => ParsingTypeOK
  BY DEF ParsingInv
<1> QED
  BY <1>1, ParsingInvariance, PTL

(* The counters of an accepted response are those of a reading of the      *)
(* whole response, however many updates it has and in whatever order and   *)
(* encoding they come.                                                     *)
THEOREM CountersAreExact == Spec => []CountersExact
<1>1. ParsingInv => CountersExact
  BY DEF ParsingInv
<1> QED
  BY <1>1, ParsingInvariance, PTL

(* An exception is thrown only for a value that is in force. *)
THEOREM ThrowsAreExact == Spec => []ThrowsExact
<1>1. ParsingInv => ThrowsExact
  BY DEF ParsingInv
<1> QED
  BY <1>1, ParsingInvariance, PTL

(* The names of an accepted response are those of its last value. *)
THEOREM NamesAreExact == Spec => []NamesExact
<1>1. ASSUME ParsingInv, outcome = "SUCCESS"
      PROVE  /\ names.policy # NoName /\ names.rule # NoName
             /\ \/ Valued = {} /\ names = response.prefix
                \/ \E i \in Valued :
                     /\ \A k \in Valued : k <= i
                     /\ names = IF response.updates[i].val = "proto"
                                  THEN response.prefix ELSE response.updates[i].path
  <2>1. /\ j = Len(response.updates) /\ names = PrintedPath
        /\ names.policy # NoName /\ names.rule # NoName
    BY <1>1 DEF ParsingInv, PlaceInv, Decoded
  <2>2. \A k \in Valued : k \in Nat /\ k <= j
    BY <1>1, <2>1 DEF ParsingInv, ParsingTypeOK, IsResponse, Valued
  <2>3. CASE (\A k \in Valued : j < k) /\ encoding = "PROTO"
    <3>1. Valued = {}
      BY <1>1, <2>2, <2>3 DEF ParsingInv, ParsingTypeOK, IsResponse
    <3> QED
      BY <2>1, <2>3, <3>1 DEF PrintedPath
  <2>4. ASSUME NEW i \in Valued,
               \A k \in Valued : k <= j => k <= i,
               encoding = IF response.updates[i].val = "proto" THEN "PROTO" ELSE "JSON_IETF",
               response.updates[i].val # "proto" => path = response.updates[i].path
        PROVE  /\ \A k \in Valued : k <= i
               /\ names = IF response.updates[i].val = "proto"
                            THEN response.prefix ELSE response.updates[i].path
    BY <2>1, <2>2, <2>4 DEF PrintedPath
  <2> QED
    BY <1>1, <2>1, <2>3, <2>4 DEF ParsingInv, LastInv
<1>2. ParsingInv => NamesExact
  BY <1>1 DEF NamesExact
<1> QED
  BY <1>2, ParsingInvariance, PTL

=============================================================================
