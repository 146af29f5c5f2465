-------------------------- MODULE SubscribeRequest --------------------------
(***************************************************************************)
(* The request both kinds of subscription send: PBRBase::get_gnmi_paths    *)
(* writes one path text for each key, subscribe_request_helper parses the  *)
(* texts into the subscriptions of a SubscribeRequest, and the caller      *)
(* sends it without looking at the helper's return value.                  *)
(*                                                                         *)
(* A text is a sequence of tokens: the four characters the path syntax     *)
(* knows and, as one token each, the pieces of text between them.          *)
(***************************************************************************)
EXTENDS Naturals, Sequences

CONSTANTS
  Word,       \* tokens a key may have beside the four separators
  Requests    \* the pairs [keys, encoding] the application asks for

Separator == {"/", "[", "]", "="}
Fixed     == {"origin:pbr-stats", "policy-maps", "policy-map", "policy-name",
              "rule-names", "rule-name"}
Text      == Seq(Word \cup Separator \cup Fixed)
PbrKey    == [key_policy : Text, key_rule : Text]
Encodings == {"JSON_IETF", "PROTO", "ASCII"}

ASSUME RequestAssumption ==
  /\ Word \cap (Separator \cup Fixed) = {}
  /\ \A r \in Requests :
       /\ r.encoding \in Encodings
       /\ r.keys \in Seq(PbrKey)

-----------------------------------------------------------------------------
(* Positions of token x in text s; std::string::find gives the first.      *)
Positions(s, x) == {n \in 1 .. Len(s) : s[n] = x}
Find(s, x)      == CHOOSE n \in Positions(s, x) : \A k \in Positions(s, x) : n <= k
Has(s, x)       == Positions(s, x) # {}

(* The text of one key's path. *)
PathText(key) ==
  <<"origin:pbr-stats", "/", "policy-maps", "/",
    "policy-map", "[", "policy-name", "=">> \o key.key_policy \o
  <<"]", "/", "rule-names", "/",
    "rule-name", "[", "rule-name", "=">> \o key.key_rule \o <<"]", "/">>

(* The pieces between the slashes: a leading slash is skipped, and nothing *)
(* follows a trailing one.  Mutant: the piece after it visited too. *)
VisitedTrailing(start, s) == start <= Len(s) + 1
Visited(start, s)         == start <= Len(s)

(* Where the piece that begins at start ends: the next slash, or the end. *)
PieceEnd(s, start) ==
  LET slashes == {n \in Positions(s, "/") : start <= n}
  IN  IF slashes = {} THEN Len(s) + 1
      ELSE CHOOSE n \in slashes : \A k \in slashes : n <= k

PiecesFrom(s) ==
  LET from[start \in 1 .. Len(s) + 2] ==
        IF Visited(start, s)
        THEN <<SubSeq(s, start, PieceEnd(s, start) - 1)>> \o from[PieceEnd(s, start) + 1]
        ELSE << >>
  IN  from

FirstPiece(s) == IF s # << >> /\ s[1] = "/" THEN 2 ELSE 1
Pieces(s)     == PiecesFrom(s)[FirstPiece(s)]

(* The text between the brackets of a piece.  A closing bracket before the *)
(* opening one makes the length wrap, and the rest of the piece is taken.  *)
KeyValue(p) ==
  SubSeq(p, Find(p, "[") + 1,
         IF Find(p, "]") > Find(p, "[") THEN Find(p, "]") - 1 ELSE Len(p))

(* Whether string_to_gnmipath accepts a piece, or throws ... *)
Accepts(p) ==
  /\ p # << >>
  /\ Has(p, "[") =>
       /\ Has(p, "]")
       /\ Find(p, "[") > 1
       /\ Has(KeyValue(p), "=")
       /\ Find(KeyValue(p), "=") \in 2 .. Len(KeyValue(p)) - 1

(* ... and the path element it gives. *)
Element(p) ==
  IF Has(p, "[")
  THEN LET kv == KeyValue(p)
           eq == Find(kv, "=")
       IN  [name |-> SubSeq(p, 1, Find(p, "[") - 1),
            key  |-> << <<SubSeq(kv, 1, eq - 1), SubSeq(kv, eq + 1, Len(kv))>> >>]
  ELSE [name |-> p, key |-> << >>]

Throws(s)          == \E n \in 1 .. Len(Pieces(s)) : ~Accepts(Pieces(s)[n])
StringToPath(s)    == [n \in 1 .. Len(Pieces(s)) |-> Element(Pieces(s)[n])]

(* gnmipath_to_string, for the paths string_to_gnmipath gives: an element  *)
(* has at most one key.  Mutant: the key not printed. *)
ElementTextNameOnly(e) == <<"/">> \o e.name
ElementText(e) ==
  <<"/">> \o e.name \o
  (IF e.key = << >> THEN << >>
   ELSE <<"[">> \o e.key[1][1] \o <<"=">> \o e.key[1][2] \o <<"]">>)

TextUpTo(path) ==
  LET upto[n \in 0 .. Len(path)] ==
        IF n = 0 THEN << >> ELSE upto[n - 1] \o ElementText(path[n])
  IN  upto

PathToString(path) == TextUpTo(path)[Len(path)]

-----------------------------------------------------------------------------
VARIABLES
  asked,          \* the keys and the encoding the application asks for
  pc,             \* "encoding", "paths", "send" or "sent"
  i,              \* paths_of_interest converted so far
  encoding,       \* of the request; PROTO unless it is set
  subscription,   \* the paths of the request's subscriptions
  err             \* what subscribe_request_helper returned

vars == <<asked, pc, i, encoding, subscription, err>>

NoPath == << >>   \* an empty gnmi::Path

TypeOK ==
  /\ asked \in Requests
  /\ pc \in {"encoding", "paths", "send", "sent"}
  /\ i \in 0 .. Len(asked.keys)
  /\ encoding \in {"none", "JSON_IETF", "PROTO"}
  /\ Len(subscription) \in Nat
  /\ err \in {"none", "SUCCESS", "UNSUPPORTED_ENCODING"}

Init ==
  /\ asked \in Requests
  /\ pc = "encoding"
  /\ i = 0
  /\ encoding = "none"
  /\ subscription = << >>
  /\ err = "none"

Supported(e) == e \in {"JSON_IETF", "PROTO"}

SetEncoding ==
  /\ pc = "encoding"
  /\ \/ /\ Supported(asked.encoding)
        /\ encoding' = asked.encoding
        /\ pc' = "paths"
        /\ UNCHANGED err
     \/ /\ ~Supported(asked.encoding)
        /\ err' = "UNSUPPORTED_ENCODING"
        /\ pc' = "send"
        /\ UNCHANGED encoding
  /\ UNCHANGED <<asked, i, subscription>>

(* One round of the loop: a text that cannot be parsed is logged, and its  *)
(* subscription is added with an empty path.  Mutant: it is left out. *)
PathsOfSkipping(s) == IF Throws(s) THEN << >> ELSE <<StringToPath(s)>>
PathsOf(s)         == IF Throws(s) THEN <<NoPath>> ELSE <<StringToPath(s)>>

AddSubscription ==
  /\ pc = "paths" /\ i < Len(asked.keys)
  /\ subscription' = subscription \o PathsOf(PathText(asked.keys[i + 1]))
  /\ i' = i + 1
  /\ UNCHANGED <<asked, pc, encoding, err>>

EndPaths ==
  /\ pc = "paths" /\ i = Len(asked.keys)
  /\ pc' = "send"
  /\ err' = "SUCCESS"
  /\ UNCHANGED <<asked, i, encoding, subscription>>

(* The caller writes the request, whatever err is. *)
Send ==
  /\ pc = "send"
  /\ pc' = "sent"
  /\ UNCHANGED <<asked, i, encoding, subscription, err>>

Sent == pc = "sent" /\ UNCHANGED vars

Next == SetEncoding \/ AddSubscription \/ EndPaths \/ Send \/ Sent

Spec == Init /\ [][Next]_vars

-----------------------------------------------------------------------------
(* The path a key stands for, independently of any text. *)
Elem(name, key) == [name |-> <<name>>, key |-> key]

Intended(key) ==
  <<Elem("origin:pbr-stats", << >>), Elem("policy-maps", << >>),
    Elem("policy-map", << << <<"policy-name">>, key.key_policy>> >>),
    Elem("rule-names", << >>),
    Elem("rule-name", << << <<"rule-name">>, key.key_rule>> >>)>>

(* A name the text of a path can carry. *)
Plain(t) == t # << >> /\ ~Has(t, "/") /\ ~Has(t, "]")

PlainKey(key) == Plain(key.key_policy) /\ Plain(key.key_rule)

(* A request that is sent has one subscription for each key, in the order  *)
(* of the keys, and each key made of plain names is asked for exactly:     *)
(* the text it was written to is parsed back to the path it stands for,    *)
(* opening brackets and equals signs in the names included.                *)
KeysRequested ==
  pc = "sent" /\ err = "SUCCESS" =>
    /\ Len(subscription) = Len(asked.keys)
    /\ \A n \in 1 .. Len(subscription) :
         PlainKey(asked.keys[n]) => subscription[n] = Intended(asked.keys[n])

(* No part of a path that was parsed is lost by printing it: parsing what  *)
(* gnmipath_to_string prints gives the same path.  The exception is a name *)
(* with a closing bracket before the opening one, where the parser keeps   *)
(* the last closing bracket in the value, and the printer adds another.    *)
PathsRoundTrip ==
  pc = "sent" =>
    \A n \in 1 .. Len(subscription) :
      LET path == subscription[n]
          s    == PathToString(path)
      IN  (\A m \in 1 .. Len(path) : path[m].key # << >> => ~Has(path[m].name, "]"))
            => ~Throws(s) /\ StringToPath(s) = path

(* An empty path, which gNMI reads as the root of all data, is asked for   *)
(* only for a key one of whose names is empty or has a slash or a bracket. *)
RootOnlyForBadKey ==
  \A n \in 1 .. Len(subscription) :
    subscription[n] = NoPath =>
      \E t \in {asked.keys[n].key_policy, asked.keys[n].key_rule} :
        ~Plain(t)

=============================================================================
