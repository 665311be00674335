---------------------------- MODULE FieldLookup ----------------------------
(***************************************************************************)
(* The value a rule is compared with: numericFieldLookup of                *)
(* internal/collector/threshold_check.go.                                  *)
(*                                                                         *)
(* A check asks one lookup for the fields of all its rules.  A name that   *)
(* the reading does not have is matched in lower case; what was parsed, and *)
(* what could not be, is remembered under the name it was found by, in     *)
(* maps that go back to a pool when the check is over.  Go walks a map in  *)
(* any order.  The pools are external: a map comes back as it was put.     *)
(***************************************************************************)
EXTENDS Integers, Sequences

CONSTANTS
    LookupName,      \* trimmed names a reading or a rule may use
    Lower,           \* [LookupName -> LookupName]: strings.ToLower
    MaxLookupPoints, \* bound: points of a reading
    MaxAsked,        \* bound: rules of a check
    MaxReadings      \* bound: readings checked

ASSUME FieldLookupAssumption ==
    /\ Lower \in [LookupName -> LookupName] /\ \A n \in LookupName : Lower[Lower[n]] = Lower[n]
    /\ {MaxLookupPoints, MaxAsked, MaxReadings} \subseteq Nat

VARIABLES
    raw,          \* fields: [name |-> value], of the fields there
    rawPoints,    \* points: a sequence of [name, val]
    normalized,   \* raw by lower-case name: at most one map, none until it is needed
    pointNorm,    \* the points by lower-case name: at most one map
    parsed, invalid,
    lookupPool,   \* what a map taken from the pool holds
    askedBefore, readings,
    answer        \* the last answer: [name, val]; val = None: not found

FieldLookupVars == <<raw, rawPoints, normalized, pointNorm, parsed, invalid, lookupPool,
                     askedBefore, readings, answer>>

Empty == [n \in {} |-> 0]
NotBuilt == {}
None == [kind |-> "none", at |-> <<0, 0>>]
NoAnswer == [name |-> CHOOSE n \in LookupName : TRUE, val |-> None]

\* A typed number, a text that is one, or a text that is not; at tells values apart.
PointKind == {"typed", "text", "junk"}
TextKind == {"text", "junk"}
Numeric(v) == v.kind \in {"typed", "text"}
Value(kind, at) == [kind |-> kind, at |-> at]

Readings ==
    {[raw |-> [n \in DOMAIN f |-> Value(f[n], <<readings, 0>>)],
      points |-> [i \in DOMAIN p |-> [name |-> p[i][1], val |-> Value(p[i][2], <<readings, i>>)]]] :
        f \in UNION {[N -> TextKind] : N \in SUBSET LookupName},
        p \in UNION {[1 .. k -> LookupName \X PointKind] : k \in 0 .. MaxLookupPoints}}

FieldLookupInit ==
    /\ readings = 1 /\ \E r \in Readings : raw = r.raw /\ rawPoints = r.points
    /\ normalized = NotBuilt /\ pointNorm = NotBuilt /\ parsed = Empty /\ invalid = {}
    /\ lookupPool = [parsed |-> Empty, invalid |-> {}]
    /\ askedBefore = 0 /\ answer = NoAnswer

\* ensurePointRaw: the first point of a name.
PointRaw ==
    LET first(n) == CHOOSE i \in DOMAIN rawPoints :
                      rawPoints[i].name = n /\ \A j \in 1 .. i - 1 : rawPoints[j].name # n
    IN  [n \in {rawPoints[i].name : i \in DOMAIN rawPoints} |-> rawPoints[first(n)].val]

\* The maps by lower-case name: of names that differ only in case any one.
Lowered(f) ==
    LET low == {Lower[n] : n \in DOMAIN f}
    IN  {g \in [low -> {f[n] : n \in DOMAIN f}] :
            \A m \in low : \E n \in DOMAIN f : Lower[n] = m /\ g[m] = f[n]}

\* getCachedFloat and isKnownInvalid look under the name and in lower case.
Cached(n) == IF n \in DOMAIN parsed THEN {parsed[n]}
             ELSE IF Lower[n] \in DOMAIN parsed THEN {parsed[Lower[n]]} ELSE {}
KnownInvalid(n) == {n, Lower[n]} \cap invalid # {}

Remember(key, v) ==
    parsed' = [m \in DOMAIN parsed \cup {key} |-> IF m = key THEN v ELSE parsed[m]]
Answers(n, v) == answer' = [name |-> n, val |-> v]

-----------------------------------------------------------------------------
(* getFloatByPreparedKeys.                                                  *)

AskCached(n) ==
    /\ \/ Cached(n) # {} /\ \E v \in Cached(n) : Answers(n, v)
       \/ Cached(n) = {} /\ KnownInvalid(n) /\ Answers(n, None)
    /\ UNCHANGED <<parsed, invalid, normalized, pointNorm>>

\* What a map by lower-case name has for n.
InLower(n, maps) ==
    IF \E f \in maps : Lower[n] \in DOMAIN f
    THEN <<[key |-> Lower[n], val |-> (CHOOSE f \in maps : TRUE)[Lower[n]]]>> ELSE <<>>

\* A point answers: of the name itself, or else in lower case.  A typed
\* number is not remembered.
Points(n) ==
    LET exact == IF n \in DOMAIN PointRaw THEN <<[key |-> n, val |-> PointRaw[n]]>> ELSE <<>>
    IN  exact \o InLower(n, pointNorm')
FirstNumeric(s) ==
    {s[i] : i \in {j \in DOMAIN s : Numeric(s[j].val) /\ \A k \in 1 .. j - 1 : ~Numeric(s[k].val)}}

AskPoint(n) ==
    \E p \in FirstNumeric(Points(n)) :
        /\ Answers(n, p.val)
        /\ IF p.val.kind = "text" THEN Remember(p.key, p.val) ELSE UNCHANGED parsed
        /\ UNCHANGED <<invalid, normalized>>

\* getRawValueWithNormalized: a field of the name, or in lower case, or the
\* point again, as text.
RawValue(n) ==
    IF n \in DOMAIN raw THEN <<[key |-> n, val |-> raw[n]]>>
    ELSE IF InLower(n, normalized') # <<>> THEN InLower(n, normalized')
    ELSE IF n \in DOMAIN PointRaw THEN <<[key |-> n, val |-> PointRaw[n]]>>
    ELSE Points(n)

\* The key that becomes invalid when nothing numeric is found.
InvalidKeys(n) ==
    {RawValue(n)[i].key : i \in {j \in DOMAIN RawValue(n) : ~Numeric(RawValue(n)[j].val)}}

\* Wrong variant: a point that is no number hides the field of its name.
AskRawPointOnly(n) ==
    /\ FirstNumeric(Points(n)) = {}
    /\ Answers(n, None) /\ UNCHANGED parsed
    /\ invalid' = invalid \cup {Points(n)[i].key : i \in DOMAIN Points(n)}
AskRaw(n) ==
    /\ FirstNumeric(Points(n)) = {}
    /\ IF FirstNumeric(RawValue(n)) = {} THEN Answers(n, None) /\ UNCHANGED parsed
       ELSE \E r \in FirstNumeric(RawValue(n)) : Answers(n, r.val) /\ Remember(r.key, r.val)
    /\ invalid' = invalid \cup InvalidKeys(n)

\* The maps by lower-case name are built when they are first needed.
Ask(n) ==
    /\ askedBefore < MaxAsked /\ askedBefore' = askedBefore + 1
    /\ \/ AskCached(n)
       \/ /\ Cached(n) = {} /\ ~KnownInvalid(n)
          /\ pointNorm' \in IF pointNorm = NotBuilt THEN {{f} : f \in Lowered(PointRaw)} ELSE {pointNorm}
          /\ \/ AskPoint(n)
             \/ /\ normalized' \in IF n \in DOMAIN raw \/ normalized # NotBuilt
                                   THEN {normalized} ELSE {{f} : f \in Lowered(raw)}
                /\ AskRaw(n)
    /\ UNCHANGED <<raw, rawPoints, lookupPool, readings>>

\* release, and the next reading's lookup with maps from the pool.
\* Wrong variant: the maps go back as they are.
ReleasedAsIs == [parsed |-> parsed, invalid |-> invalid]
Released == [parsed |-> Empty, invalid |-> {}]

NextReading ==
    /\ askedBefore > 0 /\ readings < MaxReadings /\ readings' = readings + 1
    /\ lookupPool' = Released
    /\ \E r \in Readings : raw' = r.raw /\ rawPoints' = r.points
    /\ parsed' = Released.parsed /\ invalid' = Released.invalid
    /\ normalized' = NotBuilt /\ pointNorm' = NotBuilt
    /\ askedBefore' = 0 /\ answer' = NoAnswer

FieldLookupNext == NextReading \/ \E n \in LookupName : Ask(n)

FieldLookupSpec == FieldLookupInit /\ [][FieldLookupNext]_FieldLookupVars

-----------------------------------------------------------------------------
Reported == DOMAIN raw \cup DOMAIN PointRaw
ValuesOf(n) ==
    {raw[m] : m \in {x \in DOMAIN raw : Lower[x] = Lower[n]}}
    \cup {PointRaw[m] : m \in {x \in DOMAIN PointRaw : Lower[x] = Lower[n]}}

\* A rule is compared only with a number of this very reading, reported under
\* the rule's field name up to case: nothing of an earlier reading comes back
\* with a map from the pool.
AnswerFromReading == answer.val # None => answer.val \in ValuesOf(answer.name) /\ Numeric(answer.val)

\* The value a name stands for: the point if it is a number, or else the field.
Reference(n) ==
    LET low(f) == {f[m] : m \in {x \in DOMAIN f : Lower[x] = Lower[n] /\ Numeric(f[x])}}
    IN  IF low(PointRaw) # {} THEN low(PointRaw)
        ELSE IF low(raw) # {} THEN low(raw) ELSE {None}

\* Where no two names of a reading differ only in case, what was asked before
\* makes no difference: every answer is what the reading alone says.
CacheTransparent ==
    askedBefore > 0 /\ (\A m, n \in Reported : Lower[m] = Lower[n] => m = n) =>
        answer.val \in Reference(answer.name)

\* Every rule is compared with the value the reading has for its field.
LookupSound == AnswerFromReading /\ CacheTransparent
=============================================================================
