--------------------------- MODULE Scanner_proofs ---------------------------
(***************************************************************************)
(* The hand-written scanner and encoding/json agree, proved for inputs of  *)
(* every length and every set of fields.                                   *)
(*                                                                         *)
(* The invariant couples the two readers: outside of a container it skips  *)
(* the scanner is where the reference is; inside, it has forgotten the     *)
(* nesting but for the brackets of one kind, which depth counts.           *)
(***************************************************************************)
EXTENDS Scanner, FiniteSetTheorems, SequenceTheorems, TLAPS

\* Places in the members of an object.
Members == {"first", "key", "colon", "value", "next"}

Openers == {"lbrace", "lbracket"}

\* Where the containers of kind o begin, the object itself left aside.
Opened(o, s) == {i \in 2..Len(s) : s[i] = o}

\* The object of the point is open and nothing else is.
InObject(s) == Len(s) = 1 /\ s[1] = "lbrace"

RefPlaces == Members \cup {"open", "element", "trailing", "ok", "dead"}
Values == {"unset", "int", "frac", "far"}

RefOK(r) ==
  /\ r \in [at: RefPlaces, open: Seq(Openers), key: Fields \cup {"none"}, obj: [Fields -> Values]]
  /\ r.at \in {"first", "key", "colon"} => Len(r.open) > 0 /\ r.open[Len(r.open)] = "lbrace"
  /\ r.at = "element" => Len(r.open) > 0 /\ r.open[Len(r.open)] = "lbracket"
  /\ r.at \in {"value", "next"} => Len(r.open) > 0

RefTypeOK == RefOK(ref)

\* What it skips is a container.
Skipping == at = "skip" => opener \in Openers

\* While encoding/json may still accept, the scanner is in the same place.
SamePlace ==
  /\ at = "rejected" => ref.at = "dead"
  /\ ref.at # "dead" =>
       /\ at = "open" => ref.at = "open" /\ Len(ref.open) = 0
       /\ at \in Members => ref.at = at /\ InObject(ref.open)
       /\ at \in {"colon", "value"} => key \in {ref.key, "none"}
       /\ at = "trailing" => ref.at = "trailing"
       /\ at \in {"scanned", "point", "invalid"} => ref.at = "ok"

\* In a container it skips, it counts the brackets of that kind that are open.
SameDepth ==
  at = "skip" /\ ref.at # "dead" =>
    /\ ref.at \in Members \cup {"element"}
    /\ Len(ref.open) >= 2 /\ ref.open[1] = "lbrace" /\ ref.open[2] = opener
    /\ depth = Cardinality(Opened(opener, ref.open))

\* And it has the same values, unless a name was escaped or a null came after a value;
\* what encoding/json refuses it refuses, unless it saw one of the oddities.
SameValues ==
  /\ ref.at # "dead" /\ odd \cap {"escaped", "null"} = {} =>
       /\ pj = ref.obj
       /\ at \in {"colon", "value"} => key = ref.key
  /\ odd = {} /\ ref.at = "dead" => at = "rejected"
  /\ at = "point" => Valid(pj)
  /\ at = "invalid" => ~Valid(pj)

Coupled == SamePlace /\ SameDepth /\ SameValues
Inv == TypeOK /\ RefTypeOK /\ Skipping /\ Coupled

-----------------------------------------------------------------------------
(* Open containers.                                                        *)

\* One more container is open.
LEMMA OpenedAppend ==
  ASSUME NEW B, NEW s \in Seq(B), Len(s) > 0, NEW x \in B, NEW o
  PROVE  /\ IsFiniteSet(Opened(o, s)) /\ Cardinality(Opened(o, s)) \in Nat
         /\ Cardinality(Opened(o, Append(s, x)))
              = Cardinality(Opened(o, s)) + IF x = o THEN 1 ELSE 0
<1> DEFINE n == Len(s) + 1
<1>1. IsFiniteSet(Opened(o, s)) /\ Cardinality(Opened(o, s)) \in Nat
  <2>1. Opened(o, s) \in SUBSET (2..Len(s)) /\ IsFiniteSet(2..Len(s))
    BY FS_Interval DEF Opened
  <2> QED BY <2>1, FS_Subset, FS_CardinalityType
<1>2. /\ Len(s) \in Nat /\ Len(Append(s, x)) = n /\ Append(s, x)[n] = x
      /\ \A i \in 1..Len(s) : Append(s, x)[i] = s[i]
  OBVIOUS
<1>3. n \notin Opened(o, s)
  BY <1>2 DEF Opened
<1>4. Opened(o, Append(s, x)) = IF x = o THEN Opened(o, s) \cup {n} ELSE Opened(o, s)
  <2>1. ASSUME NEW i \in 2..n
        PROVE  Append(s, x)[i] = o <=> (i \in Opened(o, s) \/ (i = n /\ x = o))
    BY <1>2, <2>1 DEF Opened
  <2>2. Opened(o, s) \subseteq 2..n /\ n \in 2..n
    BY <1>2 DEF Opened
  <2>3. Opened(o, Append(s, x)) = {i \in 2..n : Append(s, x)[i] = o}
    BY <1>2 DEF Opened
  <2> HIDE DEF n
  <2> QED BY ONLY <2>1, <2>2, <2>3
<1>5. Cardinality(Opened(o, s) \cup {n}) = Cardinality(Opened(o, s)) + 1
  BY <1>1, <1>3, FS_AddElement
<1> QED BY <1>1, <1>4, <1>5

Rest(s) == SubSeq(s, 1, Len(s) - 1)

\* What is open once the innermost container is closed.
LEMMA RestIs ==
  ASSUME NEW B, NEW s \in Seq(B), Len(s) > 0
  PROVE  /\ Rest(s) \in Seq(B) /\ Len(Rest(s)) = Len(s) - 1
         /\ \A i \in 1..(Len(s) - 1) : Rest(s)[i] = s[i]
         /\ Rest(s) = << >> <=> Len(s) = 1
<1>1. Len(s) \in Nat /\ Len(s) - 1 \in Nat /\ \A i \in 1..Len(s) : s[i] \in B
  OBVIOUS
<1> DEFINE n == Len(s) - 1
<1>2. /\ Rest(s) \in Seq(B) /\ Len(Rest(s)) = IF 1 <= n THEN n - 1 + 1 ELSE 0
      /\ \A i \in 1..(n - 1 + 1) : Rest(s)[i] = s[1 + i - 1]
  <2>1. n \in Int /\ \A i \in 1..n : s[i] \in B
    BY <1>1
  <2> HIDE DEF n
  <2>2. /\ SubSeq(s, 1, n) \in Seq(B) /\ Len(SubSeq(s, 1, n)) = IF 1 <= n THEN n - 1 + 1 ELSE 0
        /\ \A i \in 1..(n - 1 + 1) : SubSeq(s, 1, n)[i] = s[1 + i - 1]
    BY <2>1, SubSeqProperties
  <2> QED BY <2>2 DEF Rest, n
<1>3. Rest(s) \in Seq(B) /\ Len(Rest(s)) = n /\ \A i \in 1..n : Rest(s)[i] = s[i]
  <2>1. n \in Nat
    BY <1>1
  <2>2. \A i \in 1..n : i \in 1..(n - 1 + 1) /\ 1 + i - 1 = i
    BY <2>1
  <2>3. Len(Rest(s)) = n
    <3> HIDE DEF n
    <3> QED BY ONLY <1>2, <2>1
  <2>4. ASSUME NEW i \in 1..n PROVE Rest(s)[i] = s[i]
    <3>1. Rest(s)[i] = s[1 + i - 1] /\ 1 + i - 1 = i
      BY <1>2, <2>2
    <3> QED BY ONLY <3>1
  <2> QED BY <1>2, <2>3, <2>4
<1>4. Rest(s) = << >> <=> Len(Rest(s)) = 0
  BY <1>3
<1> QED BY <1>1, <1>3, <1>4

\* One container fewer is open.
LEMMA OpenedRest ==
  ASSUME NEW B, NEW s \in Seq(B), Len(s) > 1, NEW o
  PROVE  Cardinality(Opened(o, Rest(s)))
           = Cardinality(Opened(o, s)) - IF s[Len(s)] = o THEN 1 ELSE 0
<1> DEFINE n == Len(s)
<1>1. IsFiniteSet(Opened(o, s)) /\ Cardinality(Opened(o, s)) \in Nat
  BY OpenedAppend
<1>2. n \in Nat /\ Len(Rest(s)) = n - 1 /\ \A i \in 1..(n - 1) : Rest(s)[i] = s[i]
  BY RestIs
<1>3. Opened(o, Rest(s)) = Opened(o, s) \ {n}
  <2>1. ASSUME NEW i \in 2..n PROVE i # n <=> i \in 2..(n - 1)
    BY <1>2
  <2>2. 2..(n - 1) \subseteq 2..n /\ 2..(n - 1) \subseteq 1..(n - 1)
    BY <1>2
  <2>3. Opened(o, Rest(s)) = {i \in 2..(n - 1) : Rest(s)[i] = o}
    BY <1>2 DEF Opened
  <2>4. Opened(o, s) = {i \in 2..n : s[i] = o}
    BY DEF Opened
  <2> HIDE DEF n
  <2> QED BY ONLY <1>2, <2>1, <2>2, <2>3, <2>4
<1>4. n \in Opened(o, s) <=> s[n] = o
  BY <1>2 DEF Opened
<1>5. Cardinality(Opened(o, s) \ {n})
        = IF n \in Opened(o, s) THEN Cardinality(Opened(o, s)) - 1 ELSE Cardinality(Opened(o, s))
  BY <1>1, FS_RemoveElement
<1> QED BY <1>1, <1>3, <1>4, <1>5

\* The last of its kind is the outermost one; before it, more than one is open.
LEMMA OpenedOne ==
  ASSUME NEW B, NEW s \in Seq(B), Len(s) >= 2, NEW o, s[2] = o, s[Len(s)] = o
  PROVE  /\ Cardinality(Opened(o, s)) = 1 => Len(s) = 2
         /\ Len(s) = 2 => Cardinality(Opened(o, s)) = 1
<1>1. 2 \in Opened(o, s) /\ Len(s) \in Opened(o, s) /\ Len(s) \in Nat
  BY DEF Opened
<1>2. IsFiniteSet(Opened(o, s))
  BY OpenedAppend
<1>3. ASSUME Cardinality(Opened(o, s)) = 1 PROVE Len(s) = 2
  <2>1. PICK x : Opened(o, s) = {x}
    BY <1>2, <1>3, FS_Singleton
  <2> QED BY <1>1, <2>1
<1>4. ASSUME Len(s) = 2 PROVE Cardinality(Opened(o, s)) = 1
  <2>1. Opened(o, s) = {2}
    BY <1>1, <1>4 DEF Opened
  <2> QED BY <2>1, FS_Singleton
<1> QED BY <1>3, <1>4

-----------------------------------------------------------------------------
(* Tokens and what the reference makes of them.                            *)

Kinds == {"name", "escaped", "string", "raw", "number", "lbrace", "rbrace", "lbracket",
          "rbracket", "colon", "comma", "null", "true", "garbage", "end"}

\* The parts of a token are those of its kind.
LEMMA TokenKinds ==
  ASSUME NEW t \in Tokens
  PROVE  /\ t.is \in Kinds
         /\ t \in Strings <=> t.is \in {"name", "escaped", "string", "raw"}
         /\ t \in Scalars <=> t.is \in {"name", "escaped", "string", "raw", "number", "null", "true"}
         /\ t.is \in {"name", "escaped"} => t.of \in Fields
         /\ t.is \in {"string", "raw"} => t.of = "none"
         /\ t.is = "number" => t.of \in Numbers
BY DEF Tokens, Strings, Scalars, Names, Kinds, Openers

\* RefReads place by place.
LEMMA RefCases ==
  ASSUME RefTypeOK, NEW t \in Tokens
  PROVE  /\ ref.at \in {"dead", "ok"} => RefReads(t) = Dead
         /\ t.is \in {"raw", "garbage"} => RefReads(t) = Dead
         /\ ref.at = "open" => RefReads(t) = IF t.is = "lbrace" THEN RefOpen(t) ELSE Dead
         /\ ref.at \in {"first", "key"} =>
              RefReads(t) = IF t.is \in {"name", "escaped", "string"} THEN RefString(t)
                            ELSE IF ref.at = "first" /\ t.is = "rbrace" THEN RefClose ELSE Dead
         /\ ref.at = "colon" => RefReads(t) = IF t.is = "colon" THEN [ref EXCEPT !.at = "value"] ELSE Dead
         /\ ref.at \in {"value", "element"} =>
              RefReads(t) = IF t.is \in {"name", "escaped", "string", "number", "null", "true"}
                              THEN RefScalar(t)
                            ELSE IF t.is \in Openers THEN RefOpen(t)
                            ELSE IF ref.at = "element" /\ t.is = "rbracket" THEN RefClose ELSE Dead
         /\ ref.at = "next" =>
              RefReads(t) = IF t.is = "comma" THEN [ref EXCEPT !.at = IF Top = "lbrace" THEN "key" ELSE "value"]
                            ELSE IF t.is = Closer(Top) THEN RefClose ELSE Dead
         /\ ref.at = "trailing" =>
              RefReads(t) = IF t.is = "end" THEN [ref EXCEPT !.at = "ok"] ELSE Dead
<1>1. Closer(Top) \in {"rbrace", "rbracket"}
  BY DEF Closer
<1> DEFINE k == t.is
           p == ref.at
<1>2. /\ k \in Kinds
      /\ t \in Strings <=> k \in {"name", "escaped", "string", "raw"}
      /\ t \in Scalars <=> k \in {"name", "escaped", "string", "raw", "number", "null", "true"}
  BY TokenKinds
<1> QED BY <1>1, <1>2 DEF RefReads, Kinds, Openers

\* What is known of the reference.
LEMMA RefRecord ==
  ASSUME RefTypeOK
  PROVE  /\ ref.at \in RefPlaces /\ ref.open \in Seq(Openers) /\ Len(ref.open) \in Nat
         /\ ref.key \in Fields \cup {"none"} /\ ref.obj \in [Fields -> Values]
         /\ ref = [at |-> ref.at, open |-> ref.open, key |-> ref.key, obj |-> ref.obj]
<1>1. ref \in [at: RefPlaces, open: Seq(Openers), key: Fields \cup {"none"}, obj: [Fields -> Values]]
  BY DEF RefTypeOK, RefOK
<1>2. /\ ref.at \in RefPlaces /\ ref.open \in Seq(Openers)
      /\ ref.key \in Fields \cup {"none"} /\ ref.obj \in [Fields -> Values]
      /\ ref = [at |-> ref.at, open |-> ref.open, key |-> ref.key, obj |-> ref.obj]
  BY <1>1
<1> QED BY <1>2

\* What makes a state of the reference a good one.
LEMMA RefMade ==
  ASSUME NEW p \in RefPlaces, NEW o \in Seq(Openers), NEW k \in Fields \cup {"none"},
         NEW v \in [Fields -> Values],
         p \in {"first", "key", "colon"} => Len(o) > 0 /\ o[Len(o)] = "lbrace",
         p = "element" => Len(o) > 0 /\ o[Len(o)] = "lbracket",
         p \in {"value", "next"} => Len(o) > 0
  PROVE  RefOK([at |-> p, open |-> o, key |-> k, obj |-> v])
BY DEF RefOK

\* The states the reference moves to.
LEMMA RefMoves ==
  ASSUME RefTypeOK, NEW t \in Tokens
  PROVE  /\ RefOK(Dead) /\ Dead.at = "dead"
         /\ t.is \in Openers =>
              IF Target = "none"
                THEN /\ RefOpen(t) = [at   |-> IF t.is = "lbrace" THEN "first" ELSE "element",
                                      open |-> Append(ref.open, t.is),
                                      key  |-> ref.key, obj |-> ref.obj]
                     /\ RefOK(RefOpen(t))
                ELSE RefOpen(t) = Dead
         /\ Len(ref.open) > 0 =>
              /\ RefClose = [at   |-> IF Len(ref.open) = 1 THEN "trailing" ELSE "next",
                             open |-> Rest(ref.open), key |-> "none", obj |-> ref.obj]
              /\ RefOK(RefClose)
         /\ ref.at \in {"first", "key"} /\ t.is \in {"name", "escaped", "string"} =>
              /\ RefString(t) = [at  |-> "colon", open |-> ref.open,
                                 key |-> IF Len(ref.open) = 1 THEN t.of ELSE "none", obj |-> ref.obj]
              /\ RefOK(RefString(t))
<1>1. /\ ref.at \in RefPlaces /\ ref.open \in Seq(Openers) /\ Len(ref.open) \in Nat
      /\ ref.key \in Fields \cup {"none"} /\ ref.obj \in [Fields -> Values]
      /\ ref = [at |-> ref.at, open |-> ref.open, key |-> ref.key, obj |-> ref.obj]
  BY RefRecord
<1>2. RefOK(Dead) /\ Dead.at = "dead"
  BY DEF RefOK, Dead, Unset, RefPlaces, Values
<1>3. ASSUME t.is \in Openers, Target = "none"
      PROVE  /\ RefOpen(t) = [at   |-> IF t.is = "lbrace" THEN "first" ELSE "element",
                              open |-> Append(ref.open, t.is),
                              key  |-> ref.key, obj |-> ref.obj]
             /\ RefOK(RefOpen(t))
  <2>1. RefOpen(t) = [at   |-> IF t.is = "lbrace" THEN "first" ELSE "element",
                      open |-> Append(ref.open, t.is),
                      key  |-> ref.key, obj |-> ref.obj]
    BY <1>1, <1>3 DEF RefOpen
  <2>2. /\ Append(ref.open, t.is) \in Seq(Openers)
        /\ Len(Append(ref.open, t.is)) = Len(ref.open) + 1
        /\ Append(ref.open, t.is)[Len(ref.open) + 1] = t.is
    BY <1>1, <1>3
  <2>3. (IF t.is = "lbrace" THEN "first" ELSE "element") \in RefPlaces
    BY DEF RefPlaces, Members
  <2>4. /\ Len(Append(ref.open, t.is)) > 0
        /\ Append(ref.open, t.is)[Len(Append(ref.open, t.is))] = t.is
    BY <1>1, <2>2
  <2>5. t.is # "lbrace" => t.is = "lbracket"
    BY <1>3 DEF Openers
  <2>6. RefOK([at   |-> IF t.is = "lbrace" THEN "first" ELSE "element",
               open |-> Append(ref.open, t.is), key  |-> ref.key, obj |-> ref.obj])
    BY <1>1, <2>2, <2>3, <2>4, <2>5, RefMade
  <2> QED BY <2>1, <2>6
<1>4. ASSUME Len(ref.open) > 0
      PROVE  /\ RefClose = [at   |-> IF Len(ref.open) = 1 THEN "trailing" ELSE "next",
                            open |-> Rest(ref.open), key |-> "none", obj |-> ref.obj]
             /\ RefOK(RefClose)
  <2>1. /\ Rest(ref.open) \in Seq(Openers) /\ Len(Rest(ref.open)) = Len(ref.open) - 1
        /\ Rest(ref.open) = << >> <=> Len(ref.open) = 1
    BY <1>1, <1>4, RestIs
  <2>2. RefClose = [ref EXCEPT !.open = Rest(ref.open), !.key = "none",
                               !.at = IF Rest(ref.open) = << >> THEN "trailing" ELSE "next"]
    BY DEF RefClose, Rest
  <2>3. RefClose = [at   |-> IF Len(ref.open) = 1 THEN "trailing" ELSE "next",
                    open |-> Rest(ref.open), key |-> "none", obj |-> ref.obj]
    BY <1>1, <2>1, <2>2
  <2>4. (IF Len(ref.open) = 1 THEN "trailing" ELSE "next") \in RefPlaces
    BY DEF RefPlaces, Members
  <2>5. Len(ref.open) # 1 => Len(Rest(ref.open)) > 0
    BY <1>1, <1>4, <2>1
  <2>6. RefOK([at   |-> IF Len(ref.open) = 1 THEN "trailing" ELSE "next",
               open |-> Rest(ref.open), key |-> "none", obj |-> ref.obj])
    BY <1>1, <2>1, <2>4, <2>5, RefMade
  <2> QED BY <2>3, <2>6
<1>5. ASSUME ref.at \in {"first", "key"}, t.is \in {"name", "escaped", "string"}
      PROVE  /\ RefString(t) = [at  |-> "colon", open |-> ref.open,
                                key |-> IF Len(ref.open) = 1 THEN t.of ELSE "none", obj |-> ref.obj]
             /\ RefOK(RefString(t))
  <2>1. (IF Len(ref.open) = 1 THEN t.of ELSE "none") \in Fields \cup {"none"}
    BY <1>5, TokenKinds
  <2>2. RefString(t) = [at  |-> "colon", open |-> ref.open,
                        key |-> IF Len(ref.open) = 1 THEN t.of ELSE "none", obj |-> ref.obj]
    <3> DEFINE r == [ref EXCEPT !.at = "colon"]
               k == IF Len(ref.open) = 1 THEN t.of ELSE "none"
    <3>1. r = [at |-> "colon", open |-> ref.open, key |-> ref.key, obj |-> ref.obj]
      BY <1>1
    <3>2. [r EXCEPT !.key = k] = [at |-> "colon", open |-> ref.open, key |-> k, obj |-> ref.obj]
      <4> HIDE DEF r, k
      <4> QED BY ONLY <3>1
    <3> QED BY <3>2 DEF RefString
  <2>3. Len(ref.open) > 0 /\ ref.open[Len(ref.open)] = "lbrace"
    BY <1>5 DEF RefTypeOK, RefOK
  <2>4. "colon" \in RefPlaces
    BY DEF RefPlaces, Members
  <2>5. RefOK([at  |-> "colon", open |-> ref.open,
               key |-> IF Len(ref.open) = 1 THEN t.of ELSE "none", obj |-> ref.obj])
    BY <1>1, <2>1, <2>3, <2>4, RefMade
  <2> QED BY <2>2, <2>5
<1>6. ASSUME t.is \in Openers, Target # "none" PROVE RefOpen(t) = Dead
  BY <1>6 DEF RefOpen
<1> QED BY <1>2, <1>3, <1>4, <1>5, <1>6

\* A number or a null for a field; any other scalar there is an error, and elsewhere it is
\* passed over.
LEMMA RefScalarMoves ==
  ASSUME RefTypeOK, ref.at \in {"value", "element"}, NEW t \in Tokens
  PROVE  /\ Target = "none" =>
              RefScalar(t) = [at |-> "next", open |-> ref.open, key |-> ref.key, obj |-> ref.obj]
         /\ Target # "none" /\ t.is = "null" =>
              RefScalar(t) = [at  |-> "next", open |-> ref.open, key |-> "none",
                              obj |-> [ref.obj EXCEPT ![Target] = "unset"]]
         /\ Target # "none" /\ t.is = "number" /\ Parses(Target, t.of) =>
              RefScalar(t) = [at  |-> "next", open |-> ref.open, key |-> "none",
                              obj |-> [ref.obj EXCEPT ![Target] = t.of]]
         /\ Target # "none" /\ t.is # "null" /\ ~(t.is = "number" /\ Parses(Target, t.of)) =>
              RefScalar(t) = Dead
         /\ RefOK(RefScalar(t))
<1>1. /\ ref \in [at: RefPlaces, open: Seq(Openers), key: Fields \cup {"none"}, obj: [Fields -> Values]]
      /\ ref = [at |-> ref.at, open |-> ref.open, key |-> ref.key, obj |-> ref.obj]
      /\ Len(ref.open) > 0
  BY DEF RefTypeOK, RefOK
<1>2. Target = "none" => RefScalar(t) = [at |-> "next", open |-> ref.open, key |-> ref.key, obj |-> ref.obj]
  BY <1>1 DEF RefScalar
<1>3. Target # "none" /\ t.is = "null" =>
        RefScalar(t) = [at  |-> "next", open |-> ref.open, key |-> "none",
                        obj |-> [ref.obj EXCEPT ![Target] = "unset"]]
  BY <1>1 DEF RefScalar
<1>4. Target # "none" /\ t.is = "number" /\ Parses(Target, t.of) =>
        RefScalar(t) = [at  |-> "next", open |-> ref.open, key |-> "none",
                        obj |-> [ref.obj EXCEPT ![Target] = t.of]]
  BY <1>1 DEF RefScalar, Parses
<1>5. Target # "none" /\ t.is # "null" /\ ~(t.is = "number" /\ Parses(Target, t.of)) =>
        RefScalar(t) = Dead
  BY DEF RefScalar, Parses
<1>6. RefOK(RefScalar(t))
  <2>1. ASSUME NEW o \in [Fields -> Values], NEW k \in Fields \cup {"none"}
        PROVE  RefOK([at |-> "next", open |-> ref.open, key |-> k, obj |-> o])
    BY <1>1 DEF RefOK, RefPlaces, Members
  <2>2. ref.obj \in [Fields -> Values] /\ ref.key \in Fields \cup {"none"}
    BY <1>1
  <2>3. [ref.obj EXCEPT ![Target] = "unset"] \in [Fields -> Values]
    BY <2>2 DEF Values
  <2>4. t.is = "number" /\ Parses(Target, t.of) => t.of \in Values
    BY TokenKinds DEF Parses, Numbers, Values
  <2>5. t.is = "number" /\ Parses(Target, t.of)
          => [ref.obj EXCEPT ![Target] = t.of] \in [Fields -> Values]
    BY <2>2, <2>4
  <2>6. RefOK(Dead)
    BY RefMoves
  <2> QED BY <1>2, <1>3, <1>4, <1>5, <2>1, <2>2, <2>3, <2>5, <2>6
<1> QED BY <1>2, <1>3, <1>4, <1>5, <1>6

\* The reference keeps its types.
LEMMA RefTypeKept ==
  ASSUME RefTypeOK, NEW t \in Tokens
  PROVE  RefOK(RefReads(t))
<1>1. RefOK(Dead)
  BY RefMoves
<1>2. ref \in [at: RefPlaces, open: Seq(Openers), key: Fields \cup {"none"}, obj: [Fields -> Values]]
  BY DEF RefTypeOK, RefOK
<1>3. CASE ref.at \in {"dead", "ok"}
  BY <1>1, <1>3, RefCases
<1>4. CASE ref.at = "open"
  BY <1>1, <1>4, RefCases, RefMoves DEF Openers
<1>5. CASE ref.at \in {"first", "key"}
  <2>1. Len(ref.open) > 0
    BY <1>5 DEF RefTypeOK, RefOK
  <2> QED BY <1>1, <1>5, <2>1, RefCases, RefMoves
<1>6. CASE ref.at = "colon"
  <2>1. RefOK([ref EXCEPT !.at = "value"])
    BY <1>2, <1>6 DEF RefTypeOK, RefOK, RefPlaces, Members
  <2> QED BY <1>1, <1>6, <2>1, RefCases
<1>7. CASE ref.at \in {"value", "element"}
  <2>1. Len(ref.open) > 0
    BY <1>7 DEF RefTypeOK, RefOK
  <2>2. RefOK(RefScalar(t)) /\ RefOK(RefClose) /\ (t.is \in Openers => RefOK(RefOpen(t)))
    BY <1>1, <1>7, <2>1, RefMoves, RefScalarMoves
  <2> QED BY <1>1, <1>7, <2>2, RefCases
<1>8. CASE ref.at = "next"
  <2>1. Len(ref.open) > 0
    BY <1>8 DEF RefTypeOK, RefOK
  <2>2. RefOK([ref EXCEPT !.at = IF Top = "lbrace" THEN "key" ELSE "value"])
    BY <1>2, <2>1 DEF RefOK, RefPlaces, Members, Top
  <2> QED BY <1>1, <1>8, <2>1, <2>2, RefCases, RefMoves
<1>9. CASE ref.at = "trailing"
  <2>1. RefOK([ref EXCEPT !.at = "ok"])
    BY <1>2 DEF RefOK, RefPlaces
  <2> QED BY <1>1, <1>9, <2>1, RefCases
<1> QED BY <1>2, <1>3, <1>4, <1>5, <1>6, <1>7, <1>8, <1>9 DEF RefPlaces, Members

\* Only an error leaves the reference dead.
LEMMA DeadIs ==
  ASSUME RefTypeOK, NEW t \in Tokens, RefReads(t).at = "dead"
  PROVE  RefReads(t) = Dead
<1>1. ref \in [at: RefPlaces, open: Seq(Openers), key: Fields \cup {"none"}, obj: [Fields -> Values]]
  BY DEF RefTypeOK, RefOK
<1>2. t.is \in Openers /\ RefOpen(t).at = "dead" => RefOpen(t) = Dead
  <2>1. CASE Target = "none"
    <3>1. t.is \in Openers =>
            RefOpen(t).at = IF t.is = "lbrace" THEN "first" ELSE "element"
      BY <2>1, RefMoves
    <3> QED BY <3>1
  <2>2. CASE Target # "none"
    BY <2>2, RefMoves
  <2> QED BY <2>1, <2>2
<1>3. Len(ref.open) > 0 => RefClose.at # "dead"
  <2>1. Len(ref.open) > 0 => RefClose.at = IF Len(ref.open) = 1 THEN "trailing" ELSE "next"
    BY RefMoves
  <2> QED BY <2>1
<1>4. ref.at \in {"first", "key"} /\ t.is \in {"name", "escaped", "string"}
        => RefString(t).at = "colon"
  BY RefMoves
<1>5. ref.at \in {"value", "element"} /\ RefScalar(t).at = "dead" => RefScalar(t) = Dead
  <2> SUFFICES ASSUME ref.at \in {"value", "element"}
               PROVE  RefScalar(t) = Dead \/ RefScalar(t).at = "next"
    OBVIOUS
  <2> QED BY RefScalarMoves
<1>6. Len(ref.open) > 0 \/ ref.at \notin {"first", "key", "value", "element", "next"}
  BY DEF RefTypeOK, RefOK
<1>7. CASE ref.at \in {"dead", "ok"}
  BY <1>7, RefCases
<1>8. CASE ref.at = "open"
  BY <1>2, <1>8, RefCases DEF Openers
<1>9. CASE ref.at \in {"first", "key"}
  BY <1>3, <1>4, <1>6, <1>9, RefCases
<1>10. CASE ref.at = "colon"
  BY <1>1, <1>10, RefCases
<1>11. CASE ref.at \in {"value", "element"}
  BY <1>2, <1>3, <1>5, <1>6, <1>11, RefCases
<1>12. CASE ref.at = "next"
  <2>1. [ref EXCEPT !.at = IF Top = "lbrace" THEN "key" ELSE "value"].at # "dead"
    BY <1>1
  <2> QED BY <1>3, <1>6, <1>12, <2>1, RefCases
<1>13. CASE ref.at = "trailing"
  BY <1>1, <1>13, RefCases
<1> QED BY <1>1, <1>7, <1>8, <1>9, <1>10, <1>11, <1>12, <1>13 DEF RefPlaces, Members

-----------------------------------------------------------------------------
(* The scanner's own types.                                                *)

\* Every token keeps them.
LEMMA TypeKept ==
  ASSUME TypeOK, Skipping, NEW t \in Tokens, Reads(t)
  PROVE  TypeOK' /\ Skipping'
<1>1. /\ read < MaxTokens /\ read' = read + 1
      /\ odd' = odd \cup OddAt(t)
  BY DEF Reads
<1>2. read' \in 0..MaxTokens /\ odd' \subseteq {"escaped", "null", "raw", "container"}
  <2>1. OddAt(t) \subseteq {"escaped", "null", "raw", "container"}
    BY DEF OddAt
  <2>2. read' \in 0..MaxTokens
    BY <1>1, MaxTokensAssumption DEF TypeOK
  <2>3. odd \subseteq {"escaped", "null", "raw", "container"}
    BY DEF TypeOK
  <2> QED BY <1>1, <2>1, <2>2, <2>3
<1> DEFINE ScanOK ==
      /\ at \in Ended \cup {"open", "first", "key", "colon", "value", "skip", "next",
                            "trailing", "scanned"}
      /\ key \in Fields \cup {"none"}
      /\ opener \in {"none", "lbrace", "lbracket"} /\ depth \in Nat /\ (depth > 0 <=> opener # "none")
      /\ pj \in [Fields -> Values]
      /\ \A f \in Ints : pj[f] # "frac"
      /\ Skipping
<1>3. ScanOK
  BY DEF TypeOK, Values
<1>4. ScanOK'
  <2> USE DEF Skipping, Ended, Openers
  <2>1. CASE Open(t)
    BY <1>3, <2>1 DEF Open, Goes, Rejected
  <2>2. CASE ReadKey(t)
    <3>1. FieldName(t) \in Fields \cup {"none"}
      BY TokenKinds DEF FieldName
    <3> QED BY <1>3, <2>2, <3>1 DEF ReadKey, Goes, Rejected
  <2>3. CASE Colon(t)
    BY <1>3, <2>3 DEF Colon, Goes, Rejected
  <2>4. CASE ReadNumber(t)
    <3>1. ASSUME t.is = "number", Parses(key, t.of), Store(key, t.of), key # "none",
                 at' = "next", UNCHANGED <<key, opener, depth>>
          PROVE  ScanOK'
      <4>1. t.of \in Values /\ key \in Fields /\ (key \in Ints => t.of # "frac")
        BY <1>3, <3>1, TokenKinds DEF Parses, Numbers, Values
      <4>2. pj' \in [Fields -> Values]
        BY <1>3, <3>1, <4>1 DEF Store
      <4>3. ASSUME NEW f \in Ints PROVE pj'[f] # "frac"
        <5>1. f \in Fields
          BY DEF Fields
        <5> QED BY <1>3, <3>1, <4>1, <5>1 DEF Store
      <4> QED BY <1>3, <3>1, <4>2, <4>3
    <3> QED BY <1>3, <2>4, <3>1 DEF ReadNumber, Goes, Rejected
  <2>5. CASE SkipValue(t)
    BY <1>3, <2>5 DEF SkipValue, Goes, Rejected
  <2>6. CASE SkipContainer(t)
    BY <1>3, <2>6 DEF SkipContainer, Goes, Rejected, scanVars, Closes, Closer
  <2>7. CASE NextMember(t)
    BY <1>3, <2>7 DEF NextMember, Goes, Rejected
  <2>8. CASE Trailing(t)
    BY <1>3, <2>8 DEF Trailing, Goes, Rejected
  <2> QED BY <2>1, <2>2, <2>3, <2>4, <2>5, <2>6, <2>7, <2>8 DEF Reads
<1> QED BY <1>2, <1>4 DEF TypeOK, Values

-----------------------------------------------------------------------------
(* One token, read by both.                                                *)

\* A token the scanner reads at one of its places.
Reading(t) == ref' = RefReads(t) /\ odd' = odd \cup OddAt(t)

\* Once encoding/json reports an error it stays one; the scanner goes on without it.
LEMMA DeadStays ==
  ASSUME Inv, NEW t \in Tokens, Reads(t), ref.at = "dead"
  PROVE  Coupled'
<1>1. ref'.at = "dead" /\ odd \subseteq odd'
  <2>1. ref' = Dead /\ Dead.at = "dead" /\ odd' = odd \cup OddAt(t)
    BY RefCases, RefMoves DEF Reads, Inv
  <2> QED BY <2>1
<1>2. at # "rejected" /\ at' \notin {"point", "invalid"}
  BY DEF Reads, Open, ReadKey, Colon, ReadNumber, SkipValue, SkipContainer, NextMember,
         Trailing, Goes, Rejected, scanVars
<1>3. odd' # {}
  BY <1>1, <1>2 DEF Inv, Coupled, SameValues
<1> QED BY <1>1, <1>2, <1>3 DEF Coupled, SamePlace, SameDepth, SameValues

\* The scanner rejects what is an error, or goes on past one only where it is odd.
LEMMA DiesKnown ==
  ASSUME ref'.at = "dead", at' \notin {"point", "invalid"}, at' = "rejected" \/ odd' # {}
  PROVE  Coupled'
BY DEF Coupled, SamePlace, SameDepth, SameValues

\* Both go on, at the same place of the object.
LEMMA GoesOn ==
  ASSUME ref'.at # "dead", at' \in Members, ref'.at = at', InObject(ref'.open),
         at' \in {"colon", "value"} => key' \in {ref'.key, "none"},
         odd' \cap {"escaped", "null"} = {} =>
           pj' = ref'.obj /\ (at' \in {"colon", "value"} => key' = ref'.key)
  PROVE  Coupled'
BY DEF Coupled, SamePlace, SameDepth, SameValues, Members

\* What the invariant says of a place in the object.
LEMMA InMembers ==
  ASSUME Inv, ref.at # "dead", at \in Members
  PROVE  /\ ref.at = at /\ InObject(ref.open) /\ Len(ref.open) = 1 /\ Top = "lbrace"
         /\ Target = ref.key
         /\ at \in {"colon", "value"} => key \in {ref.key, "none"}
         /\ odd \cap {"escaped", "null"} = {} =>
              pj = ref.obj /\ (at \in {"colon", "value"} => key = ref.key)
BY DEF Inv, Coupled, SamePlace, SameValues, InObject, Target, Top

\* The object begins (scanPointJSON).
LEMMA OpenCoupled ==
  ASSUME Inv, ref.at # "dead", NEW t \in Tokens, Open(t), Reading(t)
  PROVE  Coupled'
<1>1. ref.at = "open" /\ Len(ref.open) = 0 /\ Target = "none" /\ RefTypeOK
  BY DEF Open, Inv, Coupled, SamePlace, Target
<1>2. ref' = (IF t.is = "lbrace" THEN RefOpen(t) ELSE Dead)
  BY <1>1, RefCases DEF Reading
<1>3. CASE t.is = "lbrace"
  <2>1. ref' = [at |-> "first", open |-> Append(ref.open, t.is), key |-> ref.key, obj |-> ref.obj]
    BY <1>1, <1>2, <1>3, RefMoves DEF Openers
  <2>2. InObject(ref'.open)
    <3>1. ref.open \in Seq(Openers) /\ t.is \in Openers
      BY <1>1, <1>3, RefRecord DEF Openers
    <3>2. Len(Append(ref.open, t.is)) = 1 /\ Append(ref.open, t.is)[1] = t.is
      BY <1>1, <3>1
    <3> QED BY <1>3, <2>1, <3>2 DEF InObject
  <2>3. at' = "first" /\ pj' = pj
    BY <1>3 DEF Open, Goes
  <2>4. odd' \cap {"escaped", "null"} = {} => pj = ref.obj
    BY DEF Inv, Coupled, SameValues, Reading
  <2> QED BY <2>1, <2>2, <2>3, <2>4, GoesOn DEF Members
<1>4. CASE t.is # "lbrace"
  <2>1. at' = "rejected" /\ ref'.at = "dead"
    BY <1>1, <1>2, <1>4, RefMoves DEF Open, Rejected
  <2> QED BY <2>1, DiesKnown
<1> QED BY <1>3, <1>4

\* A name, or the end of an empty object (readKey).
LEMMA ReadKeyCoupled ==
  ASSUME Inv, ref.at # "dead", NEW t \in Tokens, ReadKey(t), Reading(t)
  PROVE  Coupled'
<1>1. /\ at \in {"first", "key"} /\ at \in Members /\ RefTypeOK
  BY DEF ReadKey, Inv, Members
<1>2. /\ ref.at = at /\ InObject(ref.open) /\ Len(ref.open) = 1
      /\ odd \cap {"escaped", "null"} = {} => pj = ref.obj
  BY <1>1, InMembers
<1>3. CASE t.is \in {"name", "escaped", "string"}
  <2>1. ref' = [at |-> "colon", open |-> ref.open, key |-> t.of, obj |-> ref.obj]
    <3>1. ref' = RefString(t)
      BY <1>1, <1>2, <1>3, RefCases DEF Reading
    <3> QED BY <1>1, <1>2, <1>3, <3>1, RefMoves
  <2>2. at' = "colon" /\ key' = FieldName(t) /\ pj' = pj
    BY <1>3, TokenKinds DEF ReadKey, Goes, Rejected
  <2>3. key' \in {t.of, "none"}
    BY <2>2 DEF FieldName
  <2>4. ASSUME odd' \cap {"escaped", "null"} = {} PROVE pj = ref.obj /\ key' = t.of
    <3>1. odd \cap {"escaped", "null"} = {}
      BY <2>4 DEF Reading
    <3>2. t.is # "escaped"
      BY <1>1, <1>2, <2>4 DEF Reading, OddAt
    <3>3. t.is = "string" => t.of = "none"
      BY TokenKinds
    <3> QED BY <1>2, <1>3, <2>2, <3>1, <3>2, <3>3 DEF FieldName
  <2> QED BY <1>2, <2>1, <2>2, <2>3, <2>4, GoesOn DEF Members
<1>4. CASE t.is = "raw"
  <2>1. ref'.at = "dead" /\ "raw" \in odd'
    BY <1>1, <1>4, RefCases, RefMoves DEF Reading, OddAt
  <2>2. at' = "colon"
    BY <1>4, TokenKinds DEF ReadKey, Goes, Rejected
  <2> QED BY <2>1, <2>2, DiesKnown
<1>5. CASE at = "first" /\ t.is = "rbrace"
  <2>1. at' = "trailing" /\ pj' = pj
    BY <1>5, TokenKinds DEF ReadKey, Goes, Rejected
  <2>2. ref' = [at |-> "trailing", open |-> Rest(ref.open), key |-> "none", obj |-> ref.obj]
    <3>1. ref' = RefClose
      BY <1>1, <1>2, <1>5, RefCases DEF Reading
    <3> QED BY <1>1, <1>2, <3>1, RefMoves
  <2>3. odd' \cap {"escaped", "null"} = {} => pj = ref.obj
    BY <1>2 DEF Reading
  <2> QED BY <2>1, <2>2, <2>3 DEF Coupled, SamePlace, SameDepth, SameValues, Members
<1>6. CASE t.is \notin {"name", "escaped", "string", "raw"} /\ ~(at = "first" /\ t.is = "rbrace")
  <2>1. at' = "rejected"
    BY <1>6, TokenKinds DEF ReadKey, Rejected
  <2>2. ref'.at = "dead"
    BY <1>1, <1>2, <1>6, RefCases, RefMoves DEF Reading
  <2> QED BY <2>1, <2>2, DiesKnown
<1> QED BY <1>3, <1>4, <1>5, <1>6

\* The colon behind a name.
LEMMA ColonCoupled ==
  ASSUME Inv, ref.at # "dead", NEW t \in Tokens, Colon(t), Reading(t)
  PROVE  Coupled'
<1>1. at = "colon" /\ at \in Members /\ RefTypeOK
  BY DEF Colon, Inv, Members
<1>2. /\ ref.at = "colon" /\ InObject(ref.open) /\ key \in {ref.key, "none"}
      /\ odd \cap {"escaped", "null"} = {} => pj = ref.obj /\ key = ref.key
  BY <1>1, InMembers
<1>3. ref' = (IF t.is = "colon" THEN [ref EXCEPT !.at = "value"] ELSE Dead)
  BY <1>1, <1>2, RefCases DEF Reading
<1>4. CASE t.is = "colon"
  <2>1. ref' = [at |-> "value", open |-> ref.open, key |-> ref.key, obj |-> ref.obj]
    BY <1>1, <1>3, <1>4, RefRecord
  <2>2. at' = "value" /\ pj' = pj /\ key' = key
    BY <1>4 DEF Colon, Goes
  <2>3. odd \subseteq odd'
    BY DEF Reading
  <2> QED BY <1>2, <2>1, <2>2, <2>3, GoesOn DEF Members
<1>5. CASE t.is # "colon"
  <2>1. at' = "rejected" /\ ref'.at = "dead"
    BY <1>1, <1>3, <1>5, RefMoves DEF Colon, Rejected
  <2> QED BY <2>1, DiesKnown
<1> QED BY <1>4, <1>5

\* A comma, or the end of the object.
LEMMA NextMemberCoupled ==
  ASSUME Inv, ref.at # "dead", NEW t \in Tokens, NextMember(t), Reading(t)
  PROVE  Coupled'
<1>1. at = "next" /\ at \in Members /\ RefTypeOK
  BY DEF NextMember, Inv, Members
<1>2. /\ ref.at = "next" /\ InObject(ref.open) /\ Len(ref.open) = 1 /\ Top = "lbrace"
      /\ odd' \cap {"escaped", "null"} = {} => pj = ref.obj
  <2>1. odd \subseteq odd'
    BY DEF Reading
  <2> QED BY <1>1, <2>1, InMembers
<1>3. ref' = (IF t.is = "comma" THEN [ref EXCEPT !.at = "key"]
              ELSE IF t.is = "rbrace" THEN RefClose ELSE Dead)
  BY <1>1, <1>2, RefCases DEF Reading, Closer
<1>4. CASE t.is = "comma"
  <2>1. ref' = [at |-> "key", open |-> ref.open, key |-> ref.key, obj |-> ref.obj]
    BY <1>1, <1>3, <1>4, RefRecord
  <2>2. at' = "key" /\ pj' = pj
    BY <1>4 DEF NextMember, Goes, Rejected
  <2> QED BY <1>2, <2>1, <2>2, GoesOn DEF Members
<1>5. CASE t.is = "rbrace"
  <2>1. ref' = [at |-> "trailing", open |-> Rest(ref.open), key |-> "none", obj |-> ref.obj]
    BY <1>1, <1>2, <1>3, <1>5, RefMoves
  <2>2. at' = "trailing" /\ pj' = pj
    BY <1>5 DEF NextMember, Goes, Rejected
  <2> QED BY <1>2, <2>1, <2>2 DEF Coupled, SamePlace, SameDepth, SameValues, Members
<1>6. CASE t.is \notin {"comma", "rbrace"}
  <2>1. at' = "rejected" /\ ref'.at = "dead"
    BY <1>1, <1>3, <1>6, RefMoves DEF NextMember, Rejected
  <2> QED BY <2>1, DiesKnown
<1> QED BY <1>4, <1>5, <1>6

\* Nothing but the end may follow the object.
LEMMA TrailingCoupled ==
  ASSUME Inv, ref.at # "dead", NEW t \in Tokens, Trailing(t), Reading(t)
  PROVE  Coupled'
<1>1. /\ at = "trailing" /\ ref.at = "trailing" /\ RefTypeOK
      /\ odd' \cap {"escaped", "null"} = {} => pj = ref.obj
  BY DEF Trailing, Inv, Coupled, SamePlace, SameValues, Reading
<1>2. ref' = (IF t.is = "end" THEN [ref EXCEPT !.at = "ok"] ELSE Dead)
  BY <1>1, RefCases DEF Reading
<1>3. CASE t.is = "end"
  <2>1. ref' = [at |-> "ok", open |-> ref.open, key |-> ref.key, obj |-> ref.obj]
    BY <1>1, <1>2, <1>3, RefRecord
  <2>2. at' = "scanned" /\ pj' = pj
    BY <1>3 DEF Trailing, Goes
  <2> QED BY <1>1, <2>1, <2>2 DEF Coupled, SamePlace, SameDepth, SameValues, Members
<1>4. CASE t.is # "end"
  <2>1. at' = "rejected" /\ ref'.at = "dead"
    BY <1>1, <1>2, <1>4, RefMoves DEF Trailing, Rejected
  <2> QED BY <2>1, DiesKnown
<1> QED BY <1>3, <1>4

\* The value of a known field (readField).
LEMMA ReadNumberCoupled ==
  ASSUME Inv, ref.at # "dead", NEW t \in Tokens, ReadNumber(t), Reading(t)
  PROVE  Coupled'
<1>1. at = "value" /\ at \in Members /\ RefTypeOK /\ key # "none"
  BY DEF ReadNumber, Inv, Members
<1>2. /\ ref.at = "value" /\ InObject(ref.open) /\ ref.key = key /\ Target = key
      /\ odd \cap {"escaped", "null"} = {} => pj = ref.obj
  BY <1>1, InMembers
<1>3. odd \subseteq odd' /\ pj \in [Fields -> Values]
  BY DEF Reading, Inv, TypeOK, Values
<1>4. ref' = (IF t.is \in {"name", "escaped", "string", "number", "null", "true"} THEN RefScalar(t)
              ELSE IF t.is \in Openers THEN RefOpen(t) ELSE Dead)
  BY <1>1, <1>2, RefCases DEF Reading
<1>5. CASE t.is = "null"
  <2>1. ref' = [at  |-> "next", open |-> ref.open, key |-> "none",
                obj |-> [ref.obj EXCEPT ![key] = "unset"]]
    BY <1>1, <1>2, <1>4, <1>5, RefScalarMoves
  <2>2. at' = "next" /\ pj' = pj
    BY <1>5 DEF ReadNumber, Goes, Rejected
  <2>3. ASSUME odd' \cap {"escaped", "null"} = {} PROVE pj = [ref.obj EXCEPT ![key] = "unset"]
    <3>1. pj = ref.obj
      BY <1>2, <1>3, <2>3
    <3>2. pj[key] = "unset"
      BY <1>1, <1>5, <2>3 DEF Reading, OddAt
    <3> QED BY <1>3, <3>1, <3>2
  <2> QED BY <1>2, <2>1, <2>2, <2>3, GoesOn DEF Members
<1>6. CASE t.is = "number" /\ Parses(key, t.of)
  <2>1. ref' = [at  |-> "next", open |-> ref.open, key |-> "none",
                obj |-> [ref.obj EXCEPT ![key] = t.of]]
    BY <1>1, <1>2, <1>4, <1>6, RefScalarMoves
  <2>2. at' = "next" /\ pj' = [pj EXCEPT ![key] = t.of]
    BY <1>6 DEF ReadNumber, Rejected, Store
  <2>3. odd' \cap {"escaped", "null"} = {} => pj = ref.obj
    BY <1>2, <1>3
  <2> QED BY <1>2, <2>1, <2>2, <2>3, GoesOn DEF Members
<1>7. CASE t.is # "null" /\ ~(t.is = "number" /\ Parses(key, t.of))
  <2>1. at' = "rejected"
    BY <1>7 DEF ReadNumber, Rejected
  <2>2. RefScalar(t) = Dead /\ Dead.at = "dead" /\ (t.is \in Openers => RefOpen(t) = Dead)
    BY <1>1, <1>2, <1>7, RefScalarMoves, RefMoves
  <2>3. ref'.at = "dead"
    BY <1>4, <2>2
  <2> QED BY <2>1, <2>3, DiesKnown
<1> QED BY <1>5, <1>6, <1>7

\* Inside the object, a container begins.
LEMMA SkipBegins ==
  ASSUME NEW s \in Seq(Openers), InObject(s), NEW o \in Openers
  PROVE  /\ Len(Append(s, o)) = 2 /\ Append(s, o)[1] = "lbrace" /\ Append(s, o)[2] = o
         /\ Cardinality(Opened(o, Append(s, o))) = 1
<1>1. Len(s) = 1 /\ s[1] = "lbrace" /\ Append(s, o) \in Seq(Openers)
  BY DEF InObject
<1>2. Len(Append(s, o)) = 2 /\ Append(s, o)[1] = "lbrace" /\ Append(s, o)[2] = o
  <2>1. /\ Len(Append(s, o)) = Len(s) + 1 /\ Append(s, o)[Len(s) + 1] = o
        /\ \A i \in 1..Len(s) : Append(s, o)[i] = s[i]
    OBVIOUS
  <2> QED BY ONLY <1>1, <2>1
<1>3. Append(s, o)[Len(Append(s, o))] = o
  BY <1>2
<1>4. Cardinality(Opened(o, Append(s, o))) = 1
  <2> DEFINE a == Append(s, o)
  <2>1. a \in Seq(Openers) /\ Len(a) >= 2 /\ a[2] = o /\ a[Len(a)] = o /\ Len(a) = 2
    BY <1>1, <1>2, <1>3
  <2> HIDE DEF a
  <2>2. Cardinality(Opened(o, a)) = 1
    BY <2>1, OpenedOne
  <2> QED BY <2>2 DEF a
<1> QED BY <1>2, <1>4

\* The value of an unknown field begins, and ends unless it is a container (skipValue).
LEMMA SkipValueCoupled ==
  ASSUME Inv, ref.at # "dead", NEW t \in Tokens, SkipValue(t), Reading(t)
  PROVE  Coupled'
<1>1. at = "value" /\ at \in Members /\ RefTypeOK /\ key = "none"
  BY DEF SkipValue, Inv, Members
<1>2. /\ ref.at = "value" /\ InObject(ref.open) /\ Target = ref.key
      /\ odd \cap {"escaped", "null"} = {} => pj = ref.obj /\ Target = "none"
  BY <1>1, InMembers
<1>3. odd \subseteq odd' /\ (t.is = "raw" => "raw" \in odd')
  BY DEF Reading, OddAt
<1>4. /\ ref' = (IF t.is \in {"name", "escaped", "string", "number", "null", "true"} THEN RefScalar(t)
                 ELSE IF t.is \in Openers THEN RefOpen(t) ELSE Dead)
      /\ t.is \in Kinds
  BY <1>1, <1>2, RefCases, TokenKinds DEF Reading
<1>5. CASE t.is \in {"name", "escaped", "string", "raw", "number", "null", "true"}
  <2>1. at' = "next" /\ pj' = pj
    BY <1>5, TokenKinds DEF SkipValue, Goes, Rejected
  <2>2. CASE ref'.at = "dead"
    <3>1. odd' # {}
      <4>1. ASSUME t.is # "raw", Target = "none" PROVE FALSE
        <5>1. ref'.at = "next"
          BY <1>1, <1>2, <1>4, <1>5, <4>1, RefScalarMoves
        <5> QED BY <2>2, <5>1
      <4> QED BY <1>2, <1>3, <4>1
    <3> QED BY <2>1, <2>2, <3>1, DiesKnown
  <2>3. CASE ref'.at # "dead"
    <3>1. t.is # "raw"
      BY <1>1, <1>4, <2>3, RefMoves DEF Openers
    <3>2. ref' = RefScalar(t) /\ RefScalar(t) # Dead
      BY <1>1, <1>4, <1>5, <2>3, <3>1, RefMoves
    <3>3. ref'.at = "next" /\ ref'.open = ref.open
      BY <1>1, <1>2, <3>2, RefScalarMoves
    <3>4. Target = "none" => ref'.obj = ref.obj
      BY <1>1, <1>2, <3>2, RefScalarMoves
    <3>5. odd' \cap {"escaped", "null"} = {} => pj' = ref'.obj
      BY <1>2, <1>3, <2>1, <3>4
    <3> QED BY <1>2, <2>1, <2>3, <3>3, <3>5, GoesOn DEF Members
  <2> QED BY <2>2, <2>3
<1>6. CASE t.is \in Openers
  <2>1. at' = "skip" /\ opener' = t.is /\ depth' = 1 /\ pj' = pj
    BY <1>6, TokenKinds DEF SkipValue, Goes, Rejected, Openers
  <2>2. ref' = RefOpen(t)
    BY <1>4, <1>6 DEF Openers
  <2>3. CASE Target = "none"
    <3>1. ref' = [at   |-> IF t.is = "lbrace" THEN "first" ELSE "element",
                  open |-> Append(ref.open, t.is), key |-> ref.key, obj |-> ref.obj]
      BY <1>1, <1>6, <2>2, <2>3, RefMoves
    <3>2. ref.open \in Seq(Openers)
      BY <1>1, RefRecord
    <3>3. /\ Len(ref'.open) = 2 /\ ref'.open[1] = "lbrace" /\ ref'.open[2] = opener'
          /\ depth' = Cardinality(Opened(opener', ref'.open))
      BY <1>2, <1>6, <2>1, <3>1, <3>2, SkipBegins
    <3>4. ref'.at \in Members \cup {"element"} /\ ref'.obj = ref.obj
      BY <3>1 DEF Members
    <3>5. SameDepth'
      BY <3>3, <3>4 DEF SameDepth
    <3>6. SamePlace' /\ SameValues'
      BY <1>2, <1>3, <2>1, <3>4 DEF SamePlace, SameValues, Members
    <3> QED BY <3>5, <3>6 DEF Coupled
  <2>4. CASE Target # "none"
    <3>1. ref'.at = "dead" /\ odd' # {}
      BY <1>1, <1>2, <1>3, <1>6, <2>2, <2>4, RefMoves
    <3> QED BY <2>1, <3>1, DiesKnown
  <2> QED BY <2>3, <2>4
<1>7. CASE t.is \in {"rbrace", "rbracket", "colon", "comma", "garbage", "end"}
  <2>1. at' = "rejected"
    BY <1>7, TokenKinds DEF SkipValue, Rejected
  <2>2. ref'.at = "dead"
    BY <1>1, <1>4, <1>7, RefMoves DEF Openers
  <2> QED BY <2>1, <2>2, DiesKnown
<1> QED BY <1>4, <1>5, <1>6, <1>7 DEF Kinds, Openers

\* What keeps the reference alive inside of a container: a bracket that opens one more or
\* closes the innermost one, or no bracket.
LEMMA RefInContainer ==
  ASSUME RefTypeOK, ref.at \in Members \cup {"element"}, Len(ref.open) >= 2, NEW t \in Tokens,
         RefReads(t).at # "dead"
  PROVE  /\ RefReads(t).at \in Members \cup {"element"} /\ RefReads(t).obj = ref.obj
         /\ \/ t.is \in Openers /\ RefReads(t).open = Append(ref.open, t.is)
            \/ /\ t.is = Closer(Top) /\ RefReads(t).open = Rest(ref.open)
               /\ RefReads(t).at = "next"
            \/ /\ t.is \in {"name", "escaped", "string", "number", "null", "true", "colon", "comma"}
               /\ RefReads(t).open = ref.open
<1> DEFINE r == RefReads(t)
           Good == /\ r.at \in Members \cup {"element"} /\ r.obj = ref.obj
                   /\ \/ t.is \in Openers /\ r.open = Append(ref.open, t.is)
                      \/ t.is = Closer(Top) /\ r.open = Rest(ref.open) /\ r.at = "next"
                      \/ /\ t.is \in {"name", "escaped", "string", "number", "null", "true", "colon", "comma"}
                         /\ r.open = ref.open
<1>1. /\ Len(ref.open) \in Nat /\ Len(ref.open) > 0 /\ Len(ref.open) # 1 /\ Target = "none"
      /\ ref = [at |-> ref.at, open |-> ref.open, key |-> ref.key, obj |-> ref.obj]
      /\ r # Dead
  <2>1. Len(ref.open) \in Nat
        /\ ref = [at |-> ref.at, open |-> ref.open, key |-> ref.key, obj |-> ref.obj]
    BY RefRecord
  <2>2. r # Dead
    BY RefMoves
  <2>3. Len(ref.open) > 0 /\ Len(ref.open) # 1
    <3>1. Len(ref.open) \in Nat /\ Len(ref.open) >= 2
      BY <2>1
    <3>2. \A n \in Nat : n >= 2 => n > 0 /\ n # 1
      OBVIOUS
    <3> QED BY <3>1, <3>2
  <2>4. Target = "none"
    BY <2>3 DEF Target
  <2> QED BY ONLY <2>1, <2>2, <2>3, <2>4
<1>2. t.is \in Openers /\ r = RefOpen(t) => Good
  <2> SUFFICES ASSUME t.is \in Openers, r = RefOpen(t) PROVE Good
    OBVIOUS
  <2>1. r = [at   |-> IF t.is = "lbrace" THEN "first" ELSE "element",
             open |-> Append(ref.open, t.is), key  |-> ref.key, obj |-> ref.obj]
    BY <1>1, RefMoves
  <2> HIDE DEF r
  <2> QED BY <2>1 DEF Members
<1>3. t.is = Closer(Top) /\ r = RefClose => Good
  <2> SUFFICES ASSUME t.is = Closer(Top), r = RefClose PROVE Good
    OBVIOUS
  <2>1. r = [at |-> "next", open |-> Rest(ref.open), key |-> "none", obj |-> ref.obj]
    BY <1>1, RefMoves
  <2> HIDE DEF r
  <2> QED BY <2>1 DEF Members
<1>4. CASE ref.at \in {"first", "key"}
  <2>1. Top = "lbrace" /\ Closer(Top) = "rbrace"
    BY <1>4 DEF RefTypeOK, RefOK, Top, Closer
  <2>2. \/ t.is \in {"name", "escaped", "string"} /\ r = RefString(t)
        \/ t.is = "rbrace" /\ r = RefClose
    <3>1. r = IF t.is \in {"name", "escaped", "string"} THEN RefString(t)
              ELSE IF ref.at = "first" /\ t.is = "rbrace" THEN RefClose ELSE Dead
      BY <1>4, RefCases
    <3> QED BY ONLY <1>1, <3>1
  <2>3. ASSUME t.is \in {"name", "escaped", "string"}, r = RefString(t) PROVE Good
    <3>1. r = [at |-> "colon", open |-> ref.open, key |-> "none", obj |-> ref.obj]
      BY <1>1, <1>4, <2>3, RefMoves
    <3> HIDE DEF r
    <3> QED BY <2>3, <3>1 DEF Members
  <2> QED BY <1>3, <2>1, <2>2, <2>3
<1>5. CASE ref.at = "colon"
  <2>1. t.is = "colon" /\ r = [ref EXCEPT !.at = "value"]
    BY <1>1, <1>5, RefCases
  <2>2. r = [at |-> "value", open |-> ref.open, key |-> ref.key, obj |-> ref.obj]
    BY <1>1, <2>1
  <2>3. Good
    <3> HIDE DEF r
    <3> QED BY <2>1, <2>2 DEF Members
  <2> QED BY <2>3
<1>6. CASE ref.at \in {"value", "element"}
  <2>1. \/ t.is \in {"name", "escaped", "string", "number", "null", "true"} /\ r = RefScalar(t)
        \/ t.is \in Openers /\ r = RefOpen(t)
        \/ ref.at = "element" /\ t.is = "rbracket" /\ r = RefClose
    BY <1>1, <1>6, RefCases
  <2>2. ref.at = "element" => Closer(Top) = "rbracket"
    BY DEF RefTypeOK, RefOK, Top, Closer
  <2>3. ASSUME t.is \in {"name", "escaped", "string", "number", "null", "true"}, r = RefScalar(t)
        PROVE  Good
    <3>1. r = [at |-> "next", open |-> ref.open, key |-> ref.key, obj |-> ref.obj]
      BY <1>1, <1>6, <2>3, RefScalarMoves
    <3> HIDE DEF r
    <3> QED BY <2>3, <3>1 DEF Members
  <2> QED BY <1>2, <1>3, <2>1, <2>2, <2>3
<1>7. CASE ref.at = "next"
  <2>1. \/ t.is = "comma" /\ r = [ref EXCEPT !.at = IF Top = "lbrace" THEN "key" ELSE "value"]
        \/ t.is = Closer(Top) /\ r = RefClose
    BY <1>1, <1>7, RefCases
  <2>2. ASSUME t.is = "comma", r = [ref EXCEPT !.at = IF Top = "lbrace" THEN "key" ELSE "value"]
        PROVE  Good
    <3>1. r = [at  |-> IF Top = "lbrace" THEN "key" ELSE "value", open |-> ref.open,
               key |-> ref.key, obj |-> ref.obj]
      BY <1>1, <2>2
    <3> HIDE DEF r
    <3> QED BY <2>2, <3>1 DEF Members
  <2> QED BY <1>3, <2>1, <2>2
<1> QED BY <1>4, <1>5, <1>6, <1>7 DEF Members

\* It goes on skipping, and counts the containers that are open now.
LEMMA SkipsOn ==
  ASSUME Inv, ref.at # "dead", at = "skip", at' = "skip", opener' = opener, pj' = pj,
         ref'.at \in Members \cup {"element"}, ref'.obj = ref.obj, odd \subseteq odd',
         Len(ref'.open) >= 2, ref'.open[1] = "lbrace", ref'.open[2] = opener,
         depth' = Cardinality(Opened(opener, ref'.open))
  PROVE  Coupled'
<1>1. SameDepth'
  BY DEF SameDepth
<1>2. ref'.at # "dead" /\ odd' \cap {"escaped", "null"} = {} => pj' = ref'.obj
  BY DEF Inv, Coupled, SameValues
<1>3. ref'.at # "dead"
  BY DEF Members
<1> QED BY <1>1, <1>2, <1>3 DEF Coupled, SamePlace, SameValues, Members

\* One more token of a container (skipContainer): its depth is the number of open containers
\* of its kind, so that it ends with the bracket that ends it in the grammar.
LEMMA SkipContainerCoupled ==
  ASSUME Inv, ref.at # "dead", NEW t \in Tokens, SkipContainer(t), Reading(t)
  PROVE  Coupled'
<1> DEFINE s == ref.open
<1>1. /\ at = "skip" /\ RefTypeOK /\ opener \in Openers
      /\ ref.at \in Members \cup {"element"} /\ Len(s) >= 2 /\ s[1] = "lbrace" /\ s[2] = opener
      /\ depth = Cardinality(Opened(opener, s))
      /\ odd \subseteq odd'
      /\ odd \cap {"escaped", "null"} = {} => pj = ref.obj
  BY DEF SkipContainer, Inv, Skipping, Coupled, SameDepth, SameValues, Reading
<1>2. s \in Seq(Openers) /\ Len(s) \in Nat /\ t.is \in Kinds
  BY <1>1, RefRecord, TokenKinds
<1>3. Top \in Openers /\ Top = s[Len(s)]
  BY <1>1, <1>2 DEF Top
<1>4. CASE RefReads(t).at = "dead"
  <2>1. "container" \in odd' /\ ref'.at = "dead"
    <3>1. RefReads(t) = Dead
      BY <1>1, <1>4, DeadIs
    <3> QED BY <1>1, <1>4, <3>1 DEF Reading, OddAt
  <2>2. at' \in {"skip", "next", "rejected"}
    BY DEF SkipContainer, Rejected, scanVars
  <2> QED BY <2>1, <2>2, DiesKnown
<1>5. CASE RefReads(t).at # "dead"
  <2>1. /\ ref'.at \in Members \cup {"element"} /\ ref'.obj = ref.obj
        /\ \/ t.is \in Openers /\ ref'.open = Append(s, t.is)
           \/ t.is = Closer(Top) /\ ref'.open = Rest(s) /\ ref'.at = "next"
           \/ /\ t.is \in {"name", "escaped", "string", "number", "null", "true", "colon", "comma"}
              /\ ref'.open = s
    BY <1>1, <1>5, RefInContainer DEF Reading
  <2>2. Closer(Top) \in {"rbrace", "rbracket"} /\ Closer(opener) \in {"rbrace", "rbracket"}
        /\ (Closer(Top) = Closer(opener) <=> Top = opener)
    BY <1>1, <1>3 DEF Closer, Openers
  <2> HIDE DEF s
  <2>3. ASSUME t.is \in Openers, ref'.open = Append(s, t.is) PROVE Coupled'
    <3>1. /\ Len(ref'.open) = Len(s) + 1
          /\ \A i \in 1..Len(s) : ref'.open[i] = s[i]
      BY <1>2, <2>3
    <3>2. Len(ref'.open) >= 2 /\ ref'.open[1] = "lbrace" /\ ref'.open[2] = opener
      BY ONLY <1>1, <1>2, <3>1
    <3>3. /\ at' = "skip" /\ opener' = opener /\ pj' = pj
          /\ depth' = IF t.is = opener THEN depth + 1 ELSE depth
      BY <1>1, <2>2, <2>3 DEF SkipContainer, Rejected, scanVars, Openers
    <3>4. depth' = Cardinality(Opened(opener, ref'.open))
      <4>1. /\ Cardinality(Opened(opener, s)) \in Nat
            /\ Cardinality(Opened(opener, Append(s, t.is)))
                 = Cardinality(Opened(opener, s)) + IF t.is = opener THEN 1 ELSE 0
        BY <1>1, <1>2, <2>3, OpenedAppend
      <4> QED BY <1>1, <2>3, <3>3, <4>1
    <3> QED BY <1>1, <2>1, <3>2, <3>3, <3>4, SkipsOn
  <2>4. ASSUME t.is = Closer(Top), ref'.open = Rest(s), ref'.at = "next" PROVE Coupled'
    <3>1. /\ Len(ref'.open) = Len(s) - 1
          /\ \A i \in 1..(Len(s) - 1) : ref'.open[i] = s[i]
      BY <1>1, <1>2, <2>4, RestIs
    <3>2. Cardinality(Opened(opener, s)) \in Nat
      BY <1>1, <1>2, OpenedAppend
    <3>3. Cardinality(Opened(opener, ref'.open)) = depth - IF Top = opener THEN 1 ELSE 0
      BY <1>1, <1>2, <1>3, <2>4, OpenedRest
    <3>4. CASE Top = opener /\ depth = 1
      <4>1. Len(s) = 2
        BY <1>1, <1>2, <1>3, <3>4, OpenedOne
      <4>2. InObject(ref'.open)
        BY <1>1, <3>1, <4>1 DEF InObject
      <4>3. at' = "next" /\ pj' = pj
        BY <1>1, <2>2, <2>4, <3>4 DEF SkipContainer, Rejected, scanVars, Closes, Openers
      <4> QED BY <1>1, <2>1, <2>4, <4>2, <4>3, GoesOn DEF Members
    <3>5. CASE ~(Top = opener /\ depth = 1)
      <4>1. Len(s) >= 3
        <5>1. CASE Top = opener
          <6>1. Len(s) # 2
            BY <1>1, <1>2, <1>3, <3>5, <5>1, OpenedOne
          <6>2. Len(s) >= 2 /\ Len(s) \in Nat
            BY <1>1, <1>2
          <6>3. \A n \in Nat : n >= 2 /\ n # 2 => n >= 3
            OBVIOUS
          <6> QED BY ONLY <6>1, <6>2, <6>3
        <5>2. CASE Top # opener
          BY <1>1, <1>2, <1>3, <5>2
        <5> QED BY <5>1, <5>2
      <4>2. Len(ref'.open) >= 2 /\ ref'.open[1] = "lbrace" /\ ref'.open[2] = opener
        BY ONLY <1>1, <1>2, <3>1, <4>1
      <4>3. /\ at' = "skip" /\ opener' = opener /\ pj' = pj
            /\ depth' = IF Top = opener THEN depth - 1 ELSE depth
        BY <1>1, <2>2, <2>4, <3>5 DEF SkipContainer, Rejected, scanVars, Closes, Openers
      <4>4. depth' = Cardinality(Opened(opener, ref'.open))
        BY <1>1, <3>2, <3>3, <4>3
      <4> QED BY <1>1, <2>1, <4>2, <4>3, <4>4, SkipsOn
    <3> QED BY <3>4, <3>5
  <2>5. ASSUME t.is \in {"name", "escaped", "string", "number", "null", "true", "colon", "comma"},
               ref'.open = s
        PROVE  Coupled'
    <3>1. at' = "skip" /\ opener' = opener /\ pj' = pj /\ depth' = depth
      BY <1>1, <2>2, <2>5 DEF SkipContainer, Rejected, scanVars, Openers
    <3> QED BY <1>1, <2>1, <2>5, <3>1, SkipsOn
  <2> QED BY <2>1, <2>3, <2>4, <2>5
<1> QED BY <1>4, <1>5

-----------------------------------------------------------------------------
(* The invariant.                                                          *)

\* Every token keeps the invariant.
LEMMA ReadsKeeps ==
  ASSUME Inv, NEW t \in Tokens, Reads(t)
  PROVE  Inv'
<1>1. TypeOK' /\ Skipping'
  BY TypeKept DEF Inv
<1>2. RefTypeOK'
  BY RefTypeKept DEF Inv, Reads, RefTypeOK
<1>3. Coupled'
  <2>1. Reading(t)
    BY DEF Reads, Reading
  <2> QED BY <2>1, DeadStays, OpenCoupled, ReadKeyCoupled, ColonCoupled, ReadNumberCoupled,
             SkipValueCoupled, SkipContainerCoupled, NextMemberCoupled, TrailingCoupled DEF Reads
<1> QED BY <1>1, <1>2, <1>3 DEF Inv

\* toPoint sees the same values.
LEMMA ToPointKeeps ==
  ASSUME Inv, ToPoint
  PROVE  Inv'
<1>1. /\ at = "scanned" /\ at' = (IF Valid(pj) THEN "point" ELSE "invalid")
      /\ UNCHANGED <<key, opener, depth, pj, read, ref, odd>>
  BY DEF ToPoint, Goes
<1>2. TypeOK'
  BY <1>1 DEF Inv, TypeOK, Ended
<1>3. RefTypeOK' /\ Skipping'
  BY <1>1 DEF Inv, RefTypeOK, Skipping
<1>4. SamePlace' /\ SameDepth'
  BY <1>1 DEF Inv, Coupled, SamePlace, SameDepth, Members
<1>5. SameValues'
  <2>1. Valid(pj)' <=> Valid(pj)
    BY <1>1 DEF Valid
  <2> QED BY <1>1, <2>1 DEF Inv, Coupled, SameValues
<1> QED BY <1>2, <1>3, <1>4, <1>5 DEF Inv, Coupled

\* Both readers are before the first token.
LEMMA InitInv ==
  Init => Inv
<1> SUFFICES ASSUME Init PROVE Inv
  OBVIOUS
<1>1. Unset \in [Fields -> Values] /\ \A f \in Ints : Unset[f] # "frac"
  BY DEF Unset, Values, Fields
<1>2. TypeOK /\ Skipping
  BY <1>1, MaxTokensAssumption DEF Init, TypeOK, Skipping, Values
<1>3. RefTypeOK
  BY <1>1 DEF Init, RefTypeOK, RefOK, RefPlaces, Members
<1>4. Coupled
  BY DEF Init, Coupled, SamePlace, SameDepth, SameValues, Members
<1> QED BY <1>2, <1>3, <1>4 DEF Inv

\* Every step keeps the invariant.
LEMMA NextKeeps ==
  Inv /\ [Next]_vars => Inv'
<1> SUFFICES ASSUME Inv, [Next]_vars PROVE Inv'
  OBVIOUS
<1>1. ASSUME NEW t \in Tokens, Reads(t) PROVE Inv'
  BY <1>1, ReadsKeeps
<1>2. CASE ToPoint
  BY <1>2, ToPointKeeps
<1>3. CASE UNCHANGED vars
  BY <1>3 DEF vars, scanVars, Inv, TypeOK, RefTypeOK, Skipping, Coupled, SamePlace, SameDepth,
              SameValues, Valid
<1> QED BY <1>1, <1>2, <1>3 DEF Next, Stop

\* The invariant holds throughout.
LEMMA Invariance ==
  Spec => []Inv
BY InitInv, NextKeeps, PTL DEF Spec

\* Type correctness: scanPointJSON never has a depth below zero, is in a container exactly
\* while depth counts one, and pj never gets a fraction in an *int64.
THEOREM TypeCorrect == Spec => []TypeOK
<1>1. Inv => TypeOK
  BY DEF Inv
<1> QED BY <1>1, Invariance, PTL

\* A point scanPointJSON and toPoint accept is the one encoding/json gives, field by
\* field, whatever the length of the input and however deep its containers, unless it has
\* one of the four oddities.
THEOREM AcceptedIsValid == Spec => []AcceptsOnlyValid
<1>1. Inv => AcceptsOnlyValid
  BY DEF Inv, Coupled, SamePlace, SameValues, AcceptsOnlyValid, RefPoint
<1> QED BY <1>1, Invariance, PTL

\* scanPointJSON rejects no input encoding/json accepts, oddities or not, and toPoint no
\* point but after a name spelled with escapes or a null for a field that had a value.
THEOREM RejectedIsInvalid == Spec => []RejectsOnlyInvalid
<1>1. Inv => RejectsOnlyInvalid
  BY DEF Inv, Coupled, SamePlace, SameValues, RejectsOnlyInvalid, RefPoint
<1> QED BY <1>1, Invariance, PTL
=============================================================================
