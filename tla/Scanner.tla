------------------------------- MODULE Scanner -------------------------------
(***************************************************************************)
(* scanPointJSON of internal/model/fastjson.go, which reads a telemetry    *)
(* point without encoding/json, and toPoint, which validates it; next to   *)
(* them what encoding/json would make of the same bytes.                   *)
(*                                                                         *)
(* The bytes come as tokens, chosen one by one as the scanner reads them;  *)
(* white space between them is left out.  Each action is one place of the  *)
(* code that looks at b[i].  The reference reads the same token in the     *)
(* same step, so what it knows is what the whole prefix allows.            *)
(***************************************************************************)
EXTENDS Integers, Sequences

CONSTANTS
  Ints, Floats,  \* fields of pointJSON: *int64 and *float64
  Required,      \* fields toPoint insists on
  Ranged,        \* fields toPoint checks the range of
  MaxTokens      \* bound: tokens of an input

ASSUME FieldsAssumption ==
  /\ Ints \cap Floats = {} /\ "none" \notin Ints \cup Floats
  /\ Required \subseteq Ints \cup Floats /\ Required # {} /\ Ranged \subseteq Ints \cup Floats
ASSUME MaxTokensAssumption == MaxTokens \in Nat

Fields == Ints \cup Floats

\* A number is an integer in the range of every field, a fraction in the range of every
\* field, an integer out of the range of the ranged ones, or beyond a double.
Numbers == {"int", "frac", "far", "huge"}

\* A name spells a field, in whatever case; "escaped" spells it as only
\* encoding/json recognizes it (JSON escapes);
\* "raw" is a string encoding/json refuses (a control
\* character, a bad escape); "garbage" is a byte that begins no token.
Names == [is: {"name", "escaped"}, of: Fields]
Strings == Names \cup [is: {"string", "raw"}, of: {"none"}]
Tokens ==
  Strings \cup [is: {"number"}, of: Numbers]
          \cup [is: {"lbrace", "rbrace", "lbracket", "rbracket", "colon", "comma",
                     "null", "true", "garbage", "end"}, of: {"none"}]

Scalars == Strings \cup [is: {"number", "null", "true"}, of: Numbers \cup {"none"}]

VARIABLES
  at,     \* where the scanner is
  key,    \* the field of the key it read, "none" for an unknown one
  opener, \* skipContainer: what it skips,
  depth,  \* ... and how deep it is in it
  pj,     \* pj[f]: the number the field points to, "unset" for nil
  read,   \* tokens read
  ref,    \* the reference: position in the grammar, open containers, key, fields
  odd     \* history: what encoding/json is known to see differently

scanVars == <<at, key, opener, depth, pj>>
vars == <<scanVars, read, ref, odd>>

Unset == [f \in Fields |-> "unset"]
Ended == {"point", "invalid", "rejected"}

Dead == [at |-> "dead", open |-> << >>, key |-> "none", obj |-> Unset]

Init ==
  /\ at = "open" /\ key = "none" /\ opener = "none" /\ depth = 0
  /\ pj = Unset
  /\ read = 0
  /\ ref = [at |-> "open", open |-> << >>, key |-> "none", obj |-> Unset]
  /\ odd = {}

-----------------------------------------------------------------------------
(* The scanner.                                                            *)

\* fieldName: no known field has an escape in it.
FieldName(t) == IF t.is = "name" THEN t.of ELSE "none"

\* ParseInt, ParseFloat: the numbers a field takes.  Mutant: a fraction is cut off.
ParsesLax(f, n) == n # "huge"
Parses(f, n) == n # "huge" /\ (f \in Ints => n # "frac")

Rejected == at' = "rejected" /\ UNCHANGED <<key, opener, depth, pj>>

Goes(place) == at' = place /\ UNCHANGED <<key, opener, depth, pj>>

Open(t) ==
  /\ at = "open"
  /\ IF t.is = "lbrace" THEN Goes("first") ELSE Rejected

\* readKey; the first one may be the end of an empty object.
ReadKey(t) ==
  /\ at \in {"first", "key"}
  /\ \/ t \in Strings /\ at' = "colon" /\ key' = FieldName(t) /\ UNCHANGED <<opener, depth, pj>>
     \/ at = "first" /\ t.is = "rbrace" /\ Goes("trailing")
     \/ t \notin Strings /\ ~(at = "first" /\ t.is = "rbrace") /\ Rejected

Colon(t) ==
  /\ at = "colon"
  /\ IF t.is = "colon" THEN Goes("value") ELSE Rejected

\* The value of a field that comes again replaces the first.  Mutant: it does not.
StoreFirst(f, n) == pj' = [pj EXCEPT ![f] = IF @ = "unset" THEN n ELSE @]
Store(f, n) == pj' = [pj EXCEPT ![f] = n]

\* readField of a known field: readInt, readFloat.
ReadNumber(t) ==
  /\ at = "value" /\ key # "none"
  /\ \/ t.is = "null" /\ Goes("next")
     \/ /\ t.is = "number" /\ Parses(key, t.of)
        /\ Store(key, t.of)
        /\ at' = "next"
        /\ UNCHANGED <<key, opener, depth>>
     \/ t.is # "null" /\ ~(t.is = "number" /\ Parses(key, t.of)) /\ Rejected

\* skipValue of an unknown field.
SkipValue(t) ==
  /\ at = "value" /\ key = "none"
  /\ \/ t \in Scalars /\ Goes("next")
     \/ /\ t.is \in {"lbrace", "lbracket"}
        /\ at' = "skip" /\ opener' = t.is /\ depth' = 1
        /\ UNCHANGED <<key, pj>>
     \/ t \notin Scalars /\ t.is \notin {"lbrace", "lbracket"} /\ Rejected

Closer(o) == IF o = "lbrace" THEN "rbrace" ELSE "rbracket"

\* Whether a closing bracket ends the container.  Mutant: the first one does.
ClosesAtOnce == TRUE
Closes == depth = 1

\* skipContainer: only its own two brackets count, and strings hide them.
SkipContainer(t) ==
  /\ at = "skip"
  /\ \/ /\ t.is = opener
        /\ depth' = depth + 1 /\ UNCHANGED <<at, key, opener, pj>>
     \/ /\ t.is = Closer(opener) /\ ~Closes
        /\ depth' = depth - 1 /\ UNCHANGED <<at, key, opener, pj>>
     \/ /\ t.is = Closer(opener) /\ Closes
        /\ at' = "next" /\ opener' = "none" /\ depth' = 0 /\ UNCHANGED <<key, pj>>
     \/ t.is = "end" /\ Rejected
     \/ t.is \notin {opener, Closer(opener), "end"} /\ UNCHANGED scanVars

NextMember(t) ==
  /\ at = "next"
  /\ \/ t.is = "comma" /\ Goes("key")
     \/ t.is = "rbrace" /\ Goes("trailing")
     \/ t.is \notin {"comma", "rbrace"} /\ Rejected

Trailing(t) ==
  /\ at = "trailing"
  /\ IF t.is = "end" THEN Goes("scanned") ELSE Rejected

\* toPoint accepts
Valid(obj) ==
  /\ \A f \in Required : obj[f] # "unset"
  /\ \A f \in Ranged : obj[f] # "far"

ToPoint ==
  /\ at = "scanned"
  /\ Goes(IF Valid(pj) THEN "point" ELSE "invalid")
  /\ UNCHANGED <<read, ref, odd>>

-----------------------------------------------------------------------------
(* The reference: encoding/json into pointJSON.  Dead: it reports an error *)
(* whatever follows.  A null in place of the object gives no point either. *)

Top == ref.open[Len(ref.open)]

\* The field the next value goes to, "none" for none.
Target == IF Len(ref.open) = 1 THEN ref.key ELSE "none"

RefString(t) ==
  [ref EXCEPT !.at = "colon", !.key = IF Len(ref.open) = 1 THEN t.of ELSE "none"]

RefClose ==
  LET rest == SubSeq(ref.open, 1, Len(ref.open) - 1)
  IN [ref EXCEPT !.open = rest, !.key = "none", !.at = IF rest = << >> THEN "trailing" ELSE "next"]

\* A null makes the pointer nil.
RefScalar(t) ==
  IF Target = "none" THEN [ref EXCEPT !.at = "next"]
  ELSE IF t.is = "null" THEN [ref EXCEPT !.at = "next", !.key = "none", !.obj[Target] = "unset"]
  ELSE IF t.is = "number" /\ t.of # "huge" /\ (Target \in Ints => t.of # "frac")
    THEN [ref EXCEPT !.at = "next", !.key = "none", !.obj[Target] = t.of]
  ELSE Dead

RefOpen(t) ==
  IF Target # "none" THEN Dead
  ELSE [ref EXCEPT !.at = IF t.is = "lbrace" THEN "first" ELSE "element",
                   !.open = Append(@, t.is)]

RefReads(t) ==
  IF t.is = "raw" THEN Dead
  ELSE CASE ref.at = "open" /\ t.is = "lbrace" -> RefOpen(t)
         [] ref.at \in {"first", "key"} /\ t \in Strings -> RefString(t)
         [] ref.at = "colon" /\ t.is = "colon" -> [ref EXCEPT !.at = "value"]
         [] ref.at \in {"value", "element"} /\ t \in Scalars -> RefScalar(t)
         [] ref.at \in {"value", "element"} /\ t.is \in {"lbrace", "lbracket"} -> RefOpen(t)
         [] ref.at = "next" /\ t.is = "comma" ->
              [ref EXCEPT !.at = IF Top = "lbrace" THEN "key" ELSE "value"]
         [] ref.at = "first" /\ t.is = "rbrace" -> RefClose
         [] ref.at = "element" /\ t.is = "rbracket" -> RefClose
         [] ref.at = "next" /\ t.is = Closer(Top) -> RefClose
         [] ref.at = "trailing" /\ t.is = "end" -> [ref EXCEPT !.at = "ok"]
         [] OTHER -> Dead

RefPoint == ref.at = "ok" /\ Valid(ref.obj)

-----------------------------------------------------------------------------
\* What the scanner is known to see otherwise than encoding/json: a known key spelled
\* with escapes; a null for a field that has a value; a string that is none; a
\* container that is not well-formed.
OddAt(t) ==
  (IF ref.at \in {"first", "key"} /\ Len(ref.open) = 1 /\ t.is = "escaped"
     THEN {"escaped"} ELSE {})
  \cup (IF at = "value" /\ t.is = "null" /\ key # "none" /\ pj[key] # "unset"
            THEN {"null"} ELSE {})
  \cup (IF t.is = "raw" THEN {"raw"} ELSE {})
  \cup (IF at = "skip" /\ ref.at # "dead" /\ RefReads(t) = Dead THEN {"container"} ELSE {})

Reads(t) ==
  /\ read < MaxTokens
  /\ read' = read + 1
  /\ \/ Open(t) \/ ReadKey(t) \/ Colon(t) \/ ReadNumber(t) \/ SkipValue(t)
     \/ SkipContainer(t) \/ NextMember(t) \/ Trailing(t)
  /\ ref' = RefReads(t)
  /\ odd' = odd \cup OddAt(t)

Stop == (at \in Ended \/ read = MaxTokens) /\ UNCHANGED vars

Next == (\E t \in Tokens : Reads(t)) \/ ToPoint \/ Stop

Spec == Init /\ [][Next]_vars

-----------------------------------------------------------------------------
TypeOK ==
  /\ at \in Ended \cup {"open", "first", "key", "colon", "value", "skip", "next",
                        "trailing", "scanned"}
  /\ key \in Fields \cup {"none"}
  /\ opener \in {"none", "lbrace", "lbracket"} /\ depth \in Nat /\ (depth > 0 <=> opener # "none")
  /\ pj \in [Fields -> {"unset", "int", "frac", "far"}]
  /\ \A f \in Ints : pj[f] # "frac"
  /\ read \in 0..MaxTokens
  /\ odd \subseteq {"escaped", "null", "raw", "container"}

\* A point the scanner accepts is the point encoding/json gives, field by field, unless
\* the input has one of the four oddities; in particular every well-formed value of an
\* unknown field is skipped from its first byte to its last.
AcceptsOnlyValid == at = "point" /\ odd = {} => RefPoint /\ pj = ref.obj

\* The scanner rejects no input encoding/json accepts, oddities or not; and toPoint no
\* point, unless a field was spelled with escapes or a null came after a value.
RejectsOnlyInvalid ==
  /\ at = "rejected" => ref.at = "dead"
  /\ at = "invalid" /\ odd \cap {"escaped", "null"} = {} => ~RefPoint
=============================================================================
