---------------------------- MODULE MetadataFetch ----------------------------
(***************************************************************************)
(* How the metadata of a token or a contract is had (processors/erc.rs,    *)
(* fetch.rs): a sequence of methods is tried on the contract, again while  *)
(* errors are transient; the answer is decoded to a URI; what the URI      *)
(* leads to is read as JSON; in that of a data URI, control characters are *)
(* left out and quotes inside of strings are escaped first.                *)
(*                                                                         *)
(* The module is a set of operators. A case is a choice of the answers of  *)
(* the provider and the host, or a text, on which they are evaluated.      *)
(***************************************************************************)
EXTENDS Integers, Sequences, SequencesExt, FiniteSetsExt

CONSTANTS
    None, Failed, Panic, Empty,
    MaxRetries,     \* PROVIDER_MAX_RETRIES and REQ_MAX_RETRIES
    MaxText         \* bound: characters of a text

VARIABLES case

-----------------------------------------------------------------------------
(* try_fetch_contract_uri_sequence and try_fetch_token_uri_sequence: three
   methods in turn *)

Method == 1..3
Answer == {"ok", "permanent", "transient"}
Round == 1..(MaxRetries + 1)

(* The methods asked in a round. *)
Asked(permanent) == Method \ permanent

(* The round r with the methods that have failed for good so far; the answers
   are those the provider gives to whom it is asked. *)
RECURSIVE UriSequence(_, _, _)
UriSequence(answers, r, permanent) ==
    LET asked == Asked(permanent)
        ok == {m \in asked : answers[r][m] = "ok"}
        permanent2 == permanent \cup {m \in asked : answers[r][m] = "permanent"}
    IN  IF ok # {} THEN <<r, Min(ok)>>
        ELSE IF permanent2 = Method THEN None
        ELSE IF \A m \in asked : answers[r][m] # "transient" THEN None
        ELSE IF r > MaxRetries THEN None
        ELSE UriSequence(answers, r + 1, permanent2)

try_fetch_contract_uri_sequence(answers) == UriSequence(answers, 1, {})

try_fetch_token_uri_sequence(answers) == UriSequence(answers, 1, {})

(* One request, repeated after a transient error: the round of its answer. *)
RequestRetried(answers) ==
    LET final == {r \in DOMAIN answers : answers[r] # "transient"}
    IN  IF final = {} \/ answers[Min(final)] = "permanent" THEN None ELSE Min(final)

(* The name, the symbol and the decimals of a contract, in one request. *)
try_fetch_contract_metadata_sequence(answers) == RequestRetried(answers)

(* A status that is no success is final, *)
fetch_content_from_http(answers) == RequestRetried(answers)

(* every error of the IPFS gateway is transient. *)
fetch_content_from_ipfs(answers) ==
    RequestRetried([r \in Round |-> IF answers[r] = "permanent" THEN "transient" ELSE answers[r]])

-----------------------------------------------------------------------------
(* fetch_token_uri, fetch_contract_uri: the answer as text *)

Encoding == {"byte_array", "felt_array", "bad_byte_array", "bad_felt_array", "neither"}

Decode(encoding, otherwise) ==
    CASE encoding \in {"byte_array", "felt_array"} -> "uri"
      [] encoding \in {"bad_byte_array", "bad_felt_array"} -> Failed
      [] OTHER -> otherwise

fetch_token_uri(found, encoding) == IF ~found THEN Empty ELSE Decode(encoding, Empty)

fetch_contract_uri(found, encoding) == IF ~found THEN None ELSE Decode(encoding, None)

(* fetch_metadata: the document of a URI, by its scheme; a document is JSON or
   not. *)
Scheme == {"http", "ipfs", "ipfs_bare", "data", "data_not_json", "raw"}

Content(scheme, answers) ==
    CASE scheme = "http" -> fetch_content_from_http(answers)
      [] scheme = "ipfs" -> fetch_content_from_ipfs(answers)
      [] OTHER -> 1

fetch_metadata(scheme, answers, json) ==
    CASE scheme = "ipfs_bare" -> Panic
      [] scheme = "data_not_json" -> Failed
      [] OTHER -> IF json /\ Content(scheme, answers) # None THEN "json" ELSE Failed

(* An empty document stands for one that cannot be had. *)
fetch_token_metadata(found, encoding, scheme, answers, json) ==
    LET uri == fetch_token_uri(found, encoding)
        document == fetch_metadata(scheme, answers, json)
    IN  IF uri \in {Failed, Empty} THEN uri
        ELSE IF document = Failed THEN Empty ELSE document

(* At registration a contract does without; fetch_contract_metadata. *)
fetch_contract_metadata(found, encoding, scheme, answers, json) ==
    LET uri == fetch_contract_uri(found, encoding)
        document == fetch_metadata(scheme, answers, json)
    IN  IF uri \in {Failed, None} THEN uri
        ELSE IF document = Failed THEN None ELSE document

(* On an update the error is the processor's; update_contract_metadata. *)
update_contract_metadata(found, encoding, scheme, answers, json) ==
    LET uri == fetch_contract_uri(found, encoding)
    IN  IF uri \in {Failed, None} THEN uri ELSE fetch_metadata(scheme, answers, json)

-----------------------------------------------------------------------------
(* The text of a data URI, on characters that matter: a quote, a backslash, a
   separator that may follow a string (colon, comma, closing brace), white space,
   a control character and any other *)

Char == {"quote", "backslash", "separator", "space", "control", "other"}

(* The first character after position i that is not white space. *)
NextChar(text, i) ==
    LET after == {j \in (i + 1)..Len(text) : text[j] # "space"}
    IN  IF after = {} THEN "end" ELSE text[Min(after)]

(* State of the scan: the result, whether it is in a string, and the parity of the
   backslashes before the position. *)
Scan(text, s, i) ==
    LET c == text[i]
    IN  IF ~s.in_string
        THEN [s EXCEPT !.result = Append(@, c), !.in_string = c = "quote", !.odd = FALSE]
        ELSE IF c = "backslash"
        THEN [s EXCEPT !.result = Append(@, c), !.odd = ~@]
        ELSE IF c = "quote" /\ ~s.odd
        THEN IF NextChar(text, i) \in {"separator", "end"}
             THEN [s EXCEPT !.result = Append(@, c), !.in_string = FALSE]
             ELSE [s EXCEPT !.result = @ \o <<"backslash", c>>]
        ELSE [s EXCEPT !.result = Append(@, c), !.odd = FALSE]

sanitize_json_string(text) ==
    FoldLeft(LAMBDA s, i : Scan(text, s, i),
             [result |-> << >>, in_string |-> FALSE, odd |-> FALSE],
             [i \in 1..Len(text) |-> i]).result

(* Line breaks, tabs and the like are left out first. *)
WithoutControl(text) == SelectSeq(text, LAMBDA c : c # "control")

DataDocument(text) == sanitize_json_string(WithoutControl(text))

-----------------------------------------------------------------------------
(* The cases *)

Cases ==
    [kind : {"sequence"}, answers : [Round -> [Method -> Answer]]] \cup
    [kind : {"document"}, found : BOOLEAN, encoding : Encoding, scheme : Scheme,
     answers : [Round -> Answer], json : BOOLEAN] \cup
    [kind : {"text"}, text : SeqOf(Char, MaxText)]

Init == case \in Cases
Next == UNCHANGED case
Spec == Init /\ [][Next]_case

-----------------------------------------------------------------------------
(* Properties *)

(* A URI is found exactly when, before the retries are used up, a method answers
   that has not failed for good, and each round before had a transient error of such
   a method: no method is given up because of another's error, and none is asked
   again after an error that is final. *)
UriFoundIfAny ==
    case.kind = "sequence" =>
        LET a == case.answers
            Live(r, m) == \A q \in 1..(r - 1) : a[q][m] # "permanent"
            Reached(r) == \A q \in 1..(r - 1) : \E m \in Method : Live(q, m) /\ a[q][m] = "transient"
            found == {<<r, m>> \in Round \X Method : a[r][m] = "ok" /\ Live(r, m) /\ Reached(r)}
            first == IF found = {} THEN None
                     ELSE CHOOSE x \in found :
                            \A y \in found : x[1] < y[1] \/ (x[1] = y[1] /\ x[2] <= y[2])
        IN  try_fetch_contract_uri_sequence(a) = first /\ try_fetch_token_uri_sequence(a) = first

(* "Empty metadata will be used instead": the metadata of a token is the document
   whenever there is one and one of the requests for it is answered before the
   retries are used up, with no final error before. It is an error exactly when the
   URI is not text, a panic when it is a bare ipfs path, and empty otherwise. The
   name of the contract is found under the same condition as a document served over
   HTTP. *)
DocumentIfServed ==
    case.kind = "document" =>
        LET result == fetch_token_metadata(case.found, case.encoding, case.scheme, case.answers, case.json)
            read == case.found /\ Decode(case.encoding, Empty) = "uri"
            Answered(r) == /\ case.answers[r] = "ok"
                           /\ case.scheme = "ipfs" \/ \A q \in 1..(r - 1) : case.answers[q] = "transient"
            served == \E r \in Round : Answered(r)
        IN  /\ result = Failed <=> case.found /\ Decode(case.encoding, Empty) = Failed
            /\ result = Panic <=> read /\ case.scheme = "ipfs_bare"
            /\ result = "json" <=>
                 /\ read
                 /\ case.json
                 /\ \/ case.scheme \in {"data", "raw"}
                    \/ case.scheme \in {"http", "ipfs"} /\ served
            /\ case.scheme = "http" =>
                 served = (try_fetch_contract_metadata_sequence(case.answers) # None)

(* The positions at which a reader of JSON sees the end of a string: the quotes after
   an even number of backslashes, every second one. *)
StringEnds(text) ==
    FoldLeft(LAMBDA s, i :
                 IF ~s.in_string THEN [s EXCEPT !.in_string = text[i] = "quote", !.odd = FALSE]
                 ELSE IF text[i] = "backslash" THEN [s EXCEPT !.odd = ~@]
                 ELSE IF text[i] = "quote" /\ ~s.odd
                 THEN [s EXCEPT !.in_string = FALSE, !.ends = @ \cup {i}]
                 ELSE [s EXCEPT !.odd = FALSE],
             [in_string |-> FALSE, odd |-> FALSE, ends |-> {}], [i \in 1..Len(text) |-> i]).ends

IsSeparated(text) ==
    \A i \in StringEnds(text) :
        LET after == SelectSeq(SubSeq(text, i + 1, Len(text)), LAMBDA c : c # "space")
        IN  after # << >> => Head(after) = "separator"

(* Every text of a data URI is made one without control characters in which each
   string ends before a colon, a comma, a closing brace or the end ("escaping
   unescaped double quotes within string values"), and one that is such a text is
   left as it is. The last string of an array ends before a bracket, and is not such
   a string. *)
SanitizedIsSeparated ==
    case.kind = "text" =>
        LET clean == DataDocument(case.text)
        IN  /\ "control" \notin ToSet(clean)
            /\ IsSeparated(clean)
            /\ "control" \notin ToSet(case.text) /\ IsSeparated(case.text) => clean = case.text

(* All of them. *)
FetchCorrect == UriFoundIfAny /\ DocumentIfServed /\ SanitizedIsSeparated
=============================================================================
