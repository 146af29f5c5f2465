--------------------------- MODULE ResponseParsing ---------------------------
(***************************************************************************)
(* GnmiClientDetails::check_response and what it calls: how one            *)
(* SubscribeResponse becomes the counters of one policy and rule, an       *)
(* internal_error_code, or an exception that leaves check_response.        *)
(*                                                                         *)
(* Data.  Of a path only the two names matter that the code looks for: the *)
(* key of the last policy-map and of the last rule-name element, the empty *)
(* string NoName if there is none.  Of an update's value matter its        *)
(* encoding and the entries it has after flattening: a map from leaves to  *)
(* values, where Counters are the leaves unordered_map_to_stats looks up.  *)
(* A value is the integer its text spells; a text std::stoull cannot read  *)
(* stands for one out of range, which stoull rejects as well.  The two     *)
(* text fields of PbrBasicStat are copied and left out.                    *)
(***************************************************************************)
EXTENDS Integers, Sequences

CONSTANTS
  Names,       \* names of policies and rules
  NoName,      \* the empty one among them
  Leaves,      \* the leaves an update may carry a value for
  Counters,    \* those that are numeric fields of PbrBasicStat
  WordSize,    \* 2^64 in the program: the counters are uint64_t
  Responses    \* the responses the server may send

Path  == [policy : Names, rule : Names]

IsMap(m) == /\ m = [l \in DOMAIN m |-> m[l]]
            /\ DOMAIN m \subseteq Leaves
            /\ \A l \in DOMAIN m : m[l] \in Int

Encoding == {"JSON_IETF", "PROTO"}

(* val: no value, JSON that parses or not, or any other encoding, which    *)
(* gives one leaf a value.                                                 *)
IsUpdate(u) ==
  /\ DOMAIN u = {"has_path", "path", "val", "entries"}
  /\ u.has_path \in BOOLEAN /\ u.path \in Path
  /\ u.val \in {"none", "json", "malformed", "proto"}
  /\ IsMap(u.entries)
  /\ u.val = "proto" => \E l \in Leaves : DOMAIN u.entries = {l}

IsResponse(r) ==
  /\ DOMAIN r = {"has_update", "has_prefix", "origin_ok", "prefix", "updates"}
  /\ r.has_update \in BOOLEAN /\ r.has_prefix \in BOOLEAN /\ r.origin_ok \in BOOLEAN
  /\ r.prefix \in Path
  /\ Len(r.updates) \in Nat
  /\ \A i \in 1 .. Len(r.updates) : IsUpdate(r.updates[i])

Error == {"NO_NOTIFICATION", "NO_PREFIX_IN_RESPONSE", "UNKNOWN_ERROR",
          "NO_UPDATE_IN_NOTIFICATION", "NO_POLICY_NAME_IN_RESPONSE",
          "NO_RULE_NAME_IN_RESPONSE"}
Outcome == {"pending", "SUCCESS", "exception"} \cup Error

ASSUME ParsingAssumption ==
  /\ NoName \in Names
  /\ Counters \subseteq Leaves
  /\ WordSize \in Nat \ {0}
  /\ \A r \in Responses : IsResponse(r)

VARIABLES
  response,  \* the response being checked
  pc,        \* "prefix", "updates", "names", "stats" or "done"
  j,         \* the updates decoded so far
  encoding,  \* the encoding of the last value decoded
  path,      \* the path of the last JSON value decoded
  result,    \* the flattened map
  names,     \* its entries policy_name and rule_name
  stat,      \* the counters of the PbrBasicStat
  outcome

vars == <<response, pc, j, encoding, path, result, names, stat, outcome>>

NoNames   == [policy |-> NoName, rule |-> NoName]
EmptyMap  == [l \in {} |-> 0]
ZeroStat  == [c \in Counters |-> 0]

ParsingTypeOK ==
  /\ IsResponse(response)
  /\ pc \in {"prefix", "updates", "names", "stats", "done"}
  /\ j \in 0 .. Len(response.updates)
  /\ encoding \in Encoding
  /\ path \in Path
  /\ names \in Path
  /\ IsMap(result)
  /\ stat \in [Counters -> 0 .. WordSize - 1]
  /\ outcome \in Outcome

Init ==
  /\ response \in Responses
  /\ pc = "prefix"
  /\ j = 0
  /\ encoding = "PROTO"
  /\ path = NoNames
  /\ result = EmptyMap
  /\ names = NoNames
  /\ stat = ZeroStat
  /\ outcome = "pending"

-----------------------------------------------------------------------------
Done(o) == pc' = "done" /\ outcome' = o

(* has_update, has_prefix, the origin and the number of updates. *)
CheckPrefix ==
  /\ pc = "prefix"
  /\ \/ ~response.has_update /\ Done("NO_NOTIFICATION")
     \/ /\ response.has_update /\ ~response.has_prefix
        /\ Done("NO_PREFIX_IN_RESPONSE")
     \/ /\ response.has_update /\ response.has_prefix /\ ~response.origin_ok
        /\ Done("UNKNOWN_ERROR")
     \/ /\ response.has_update /\ response.has_prefix /\ response.origin_ok
        /\ response.updates = << >>
        /\ Done("NO_UPDATE_IN_NOTIFICATION")
     \/ /\ response.has_update /\ response.has_prefix /\ response.origin_ok
        /\ response.updates # << >>
        /\ pc' = "updates"
        /\ UNCHANGED outcome
  /\ UNCHANGED <<response, j, encoding, path, result, names, stat>>

(* Mutant: the entries of the later map replace those there are. *)
InsertReplacing(m, e) ==
  [l \in DOMAIN m \cup DOMAIN e |-> IF l \in DOMAIN e THEN e[l] ELSE m[l]]

(* unordered_map::insert, which keeps the entries there are ... *)
Insert(m, e) ==
  [l \in DOMAIN m \cup DOMAIN e |-> IF l \in DOMAIN m THEN m[l] ELSE e[l]]

(* ... and operator[] with an assignment, which replaces them.  Mutant:    *)
(* the first value kept. *)
AssignKeeping(m, e) ==
  [l \in DOMAIN m \cup DOMAIN e |-> IF l \in DOMAIN m THEN m[l] ELSE e[l]]

Assign(m, e) ==
  [l \in DOMAIN m \cup DOMAIN e |-> IF l \in DOMAIN e THEN e[l] ELSE m[l]]

(* One round of the loop over the updates.  JSON that does not parse is    *)
(* logged; its path and encoding have been taken by then. *)
DecodeUpdate ==
  LET u == response.updates[j + 1] IN
  /\ pc = "updates" /\ j < Len(response.updates)
  /\ j' = j + 1
  /\ \/ /\ ~u.has_path \/ u.val = "none"
        /\ UNCHANGED <<encoding, path, result>>
     \/ /\ u.has_path /\ u.val \in {"json", "malformed"}
        /\ encoding' = "JSON_IETF"
        /\ path' = u.path
        /\ result' = IF u.val = "json" THEN Insert(result, u.entries) ELSE result
     \/ /\ u.has_path /\ u.val = "proto"
        /\ encoding' = "PROTO"
        /\ result' = Assign(result, u.entries)
        /\ UNCHANGED path
  /\ UNCHANGED <<response, pc, names, stat, outcome>>

(* Mutant: the path of an update, whatever its encoding. *)
PrintedPathOfUpdate == path
PrintedPath == IF encoding = "PROTO" THEN response.prefix ELSE path

EndUpdates ==
  /\ pc = "updates" /\ j = Len(response.updates)
  /\ names' = PrintedPath
  /\ pc' = "names"
  /\ UNCHANGED <<response, j, encoding, path, result, stat, outcome>>

CheckNames ==
  /\ pc = "names"
  /\ \/ names.policy = NoName /\ Done("NO_POLICY_NAME_IN_RESPONSE")
     \/ names.policy # NoName /\ names.rule = NoName /\ Done("NO_RULE_NAME_IN_RESPONSE")
     \/ names.policy # NoName /\ names.rule # NoName /\ pc' = "stats" /\ UNCHANGED outcome
  /\ UNCHANGED <<response, j, encoding, path, result, names, stat>>

(* std::stoull: a minus sign negates modulo 2^64; out of range it throws.  *)
(* Mutant: the number taken as it is. *)
Throws(v)    == v >= WordSize \/ v <= -WordSize
StoullRaw(v) == v
Stoull(v)    == v % WordSize

(* PBRBasic::unordered_map_to_stats. *)
ToStats ==
  /\ pc = "stats"
  /\ IF \E c \in Counters \cap DOMAIN result : Throws(result[c])
       THEN /\ Done("exception")
            /\ UNCHANGED stat
       ELSE /\ Done("SUCCESS")
            /\ stat' = [c \in Counters |->
                          IF c \in DOMAIN result THEN Stoull(result[c]) ELSE 0]
  /\ UNCHANGED <<response, j, encoding, path, result, names>>

(* check_response has returned, or thrown. *)
Returned == pc = "done" /\ UNCHANGED vars

Next == \/ CheckPrefix \/ DecodeUpdate \/ EndUpdates \/ CheckNames \/ ToStats
        \/ Returned

Spec == Init /\ [][Next]_vars

-----------------------------------------------------------------------------
(* WHAT THE RESULT SHOULD BE, read off the whole response                  *)

Valued == {i \in 1 .. Len(response.updates) :
             response.updates[i].has_path /\ response.updates[i].val # "none"}

Carriers(l, val) == {i \in Valued : /\ response.updates[i].val = val
                                    /\ l \in DOMAIN response.updates[i].entries}

(* Update i gives leaf l its value: the last PROTO update that carries it, *)
(* else the first JSON update that does.                                   *)
Source(l, i) ==
  \/ i \in Carriers(l, "proto") /\ \A k \in Carriers(l, "proto") : k <= i
  \/ /\ Carriers(l, "proto") = {}
     /\ i \in Carriers(l, "json") /\ \A k \in Carriers(l, "json") : i <= k

SourceValue(l, i) == response.updates[i].entries[l]

(* The counters of a response that is accepted are, leaf by leaf, those of *)
(* the update that counts for it, converted modulo 2^64, and zero for a    *)
(* leaf that no update carries.                                            *)
CountersExact ==
  outcome = "SUCCESS" =>
    \A c \in Counters :
      /\ \A i \in Valued : Source(c, i) =>
           ~Throws(SourceValue(c, i)) /\ stat[c] = Stoull(SourceValue(c, i))
      /\ (\A i \in Valued : ~Source(c, i)) => stat[c] = 0

(* An exception leaves check_response only for a value that is in force:   *)
(* one that a later update replaced does no harm.                          *)
ThrowsExact ==
  outcome = "exception" =>
    \E c \in Counters : \E i \in Valued :
      Source(c, i) /\ Throws(SourceValue(c, i))

(* The policy and the rule of an accepted response are those of the last   *)
(* update with a value: of its own path for JSON, of the prefix for PROTO  *)
(* and for a response without values.                                      *)
NamesExact ==
  outcome = "SUCCESS" =>
    /\ names.policy # NoName /\ names.rule # NoName
    /\ \/ /\ Valued = {} /\ names = response.prefix
       \/ \E i \in Valued :
            /\ \A k \in Valued : k <= i
            /\ names = IF response.updates[i].val = "proto"
                         THEN response.prefix ELSE response.updates[i].path

-----------------------------------------------------------------------------
(* WHAT THE DOCUMENTATION SAYS                                             *)

(* A path that says which rule it is about. *)
NamesARule(p) == p.policy # NoName /\ p.rule # NoName

(* README.md:211: a counter structure for each key.  When each update says *)
(* in its path which rule it is about, every counter of the pbr_stat is    *)
(* one that the response gave for the rule the pbr_stat names.             *)
CountersOfTheRule ==
  outcome = "SUCCESS"
  /\ (\A i \in Valued : response.updates[i].val = "json"
                       /\ NamesARule(response.updates[i].path))
    => \A c \in Counters : \A i \in Valued :
         Source(c, i) => response.updates[i].path = names

=============================================================================
