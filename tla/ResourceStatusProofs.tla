----------------------- MODULE ResourceStatusProofs -----------------------
(***************************************************************************)
(* Proofs about ResourceStatus, for lists of any length, any number of     *)
(* types and reasons, and any depth of wrapping: the inductive invariant,  *)
(* and from it what the conditions and the recent errors tell.             *)
(***************************************************************************)
EXTENDS ResourceStatus, FiniteSetTheorems, TLAPS

(***************************************************************************)
(* Finding a condition                                                     *)
(***************************************************************************)
(* SetCondition and GetCondition find the one condition of a type...       *)
LEMMA FoundOfType ==
    ASSUME TypeOK, OnePerType, NEW n \in DOMAIN conditions
    PROVE  Index(conditions[n].type) = n
<1>1. {k \in 1..Len(conditions) : conditions[k].type = conditions[n].type} = {n}
  BY DEF TypeOK, OnePerType
<1>2. Min({n}) = n
  BY DEF Min
<1> QED BY <1>1, <1>2 DEF SelectInSeq, Index

(* ...and nothing when there is none.                                      *)
LEMMA NoneOfType ==
    ASSUME NEW t, \A n \in DOMAIN conditions : conditions[n].type # t, TypeOK
    PROVE  Index(t) = 0
<1>1. {k \in 1..Len(conditions) : conditions[k].type = t} = {}
  BY DEF TypeOK
<1> QED BY <1>1 DEF SelectInSeq, Index

(* The condition of a type that was told is the call it began with.        *)
LEMMA ToldIsFound ==
    ASSUME TypeOK, OnePerType, NEW n \in DOMAIN conditions
    PROVE  GetCondition(conditions[n].type) = conditions[n]
<1>1. Index(conditions[n].type) = n
  BY FoundOfType
<1>2. n # 0
  BY DEF TypeOK
<1> QED BY <1>1, <1>2 DEF GetCondition

(***************************************************************************)
(* The conditions                                                          *)
(***************************************************************************)
(* A call of a type appended to the history leaves the beginnings of the   *)
(* other types, and of its own when it says the same.                      *)
LEMMA BeganKept ==
    ASSUME TypeOK, NEW c, calls' = Append(calls, c),
           NEW i \in DOMAIN calls, Began(i),
           c.type = calls[i].type => Same(c, calls[i])
    PROVE  Began(i)'
<1>1. /\ Len(calls) \in Nat /\ DOMAIN calls = 1..Len(calls)
      /\ DOMAIN calls' = 1..(Len(calls) + 1)
      /\ calls'[Len(calls) + 1] = c
      /\ \A j \in 1..Len(calls) : calls'[j] = calls[j]
  BY DEF TypeOK
<1> DEFINE OfType == {j \in DOMAIN calls : calls[j].type = calls[i].type}
<1>2. ASSUME NEW j \in DOMAIN calls', calls'[j].type = calls'[i].type, j > i
      PROVE  Same(calls'[j], calls'[i])
  <2>1. CASE j = Len(calls) + 1
    BY <1>1, <1>2, <2>1
  <2>2. CASE j # Len(calls) + 1
    BY <1>1, <1>2, <2>2 DEF Began
  <2> QED BY <2>1, <2>2
<1>3. ASSUME NEW j \in DOMAIN calls', calls'[j].type = calls'[i].type, j < i,
             Same(calls'[j], calls'[i])
      PROVE  \E m \in DOMAIN calls' : /\ calls'[m].type = calls'[i].type
                                      /\ j < m /\ m < i /\ ~Same(calls'[m], calls'[i])
  <2>1. j \in OfType /\ Same(calls[j], calls[i])
    BY <1>1, <1>3
  <2>2. PICK m \in OfType : j < m /\ m < i /\ ~Same(calls[m], calls[i])
    BY <1>3, <2>1 DEF Began
  <2> QED BY <1>1, <2>2
<1>4. Began(i)' <=>
        LET OT == {j \in DOMAIN calls' : calls'[j].type = calls'[i].type} IN
        /\ \A j \in OT : j > i => Same(calls'[j], calls'[i])
        /\ \A j \in OT : j < i /\ Same(calls'[j], calls'[i]) =>
              \E m \in OT : j < m /\ m < i /\ ~Same(calls'[m], calls'[i])
  BY DEF Began, Same
<1> QED BY <1>2, <1>3, <1>4

(* A call that says something new of its type is a beginning.              *)
LEMMA BeginsAnew ==
    ASSUME TypeOK, NEW c, calls' = Append(calls, c), NEW i, i = Len(calls) + 1,
           \A j \in DOMAIN calls : calls[j].type = c.type /\ Same(calls[j], c) =>
               \E m \in DOMAIN calls : calls[m].type = c.type /\ j < m /\ ~Same(calls[m], c)
    PROVE  Began(i)' /\ calls'[i] = c
<1>1. /\ Len(calls) \in Nat /\ DOMAIN calls = 1..Len(calls)
      /\ DOMAIN calls' = 1..(Len(calls) + 1)
      /\ calls'[Len(calls) + 1] = c
      /\ \A j \in 1..Len(calls) : calls'[j] = calls[j]
  BY DEF TypeOK
<1>2. ASSUME NEW j \in DOMAIN calls', calls'[j].type = c.type, j < i, Same(calls'[j], c)
      PROVE  \E m \in DOMAIN calls' : /\ calls'[m].type = c.type
                                      /\ j < m /\ m < i /\ ~Same(calls'[m], c)
  <2>1. j \in DOMAIN calls /\ calls[j].type = c.type /\ Same(calls[j], c)
    BY <1>1, <1>2
  <2>2. PICK m \in DOMAIN calls : calls[m].type = c.type /\ j < m /\ ~Same(calls[m], c)
    BY <2>1
  <2> QED BY <1>1, <2>2
<1>3. \A j \in DOMAIN calls' : ~(j > i)
  BY <1>1
<1>4. Began(i)' <=>
        LET OT == {j \in DOMAIN calls' : calls'[j].type = calls'[i].type} IN
        /\ \A j \in OT : j > i => Same(calls'[j], calls'[i])
        /\ \A j \in OT : j < i /\ Same(calls'[j], calls'[i]) =>
              \E m \in OT : j < m /\ m < i /\ ~Same(calls'[m], calls'[i])
  BY <1>1 DEF Began, Same
<1>5. calls'[i] = c
  BY <1>1
<1>6. Began(i)'
  BY <1>2, <1>3, <1>4, <1>5
<1> QED BY <1>5, <1>6

(* Setting a condition keeps one condition per type, each of them the call *)
(* with which its type began to be what it is.                             *)
LEMMA SetOnePerType ==
    ASSUME TypeOK, OnePerType, NEW t \in Types, NEW status \in Statuses, NEW reason \in Reasons,
           SetCondition(t, status, reason), now' = now,
           calls' = Append(calls, [type |-> t, status |-> status, reason |-> reason,
                                   time |-> now])
    PROVE  conditions' \in Seq(Conditions) /\ calls' \in Seq(Conditions) /\ OnePerType'
<1> DEFINE c == [type |-> t, status |-> status, reason |-> reason, time |-> now]
           old == Len(calls)
<1>c. c \in Conditions /\ c.time <= now
  BY DEF Conditions, TypeOK
<1>1. /\ calls' \in Seq(Conditions)
      /\ old \in Nat /\ DOMAIN calls = 1..old /\ DOMAIN calls' = 1..(old + 1)
      /\ calls'[old + 1] = c /\ \A j \in 1..old : calls'[j] = calls[j]
  BY <1>c DEF TypeOK
<1>2. Told' = Told \cup {t}
  BY <1>1 DEF Told
<1>3. /\ Len(conditions) \in Nat /\ DOMAIN conditions = 1..Len(conditions)
      /\ \A n \in DOMAIN conditions : conditions[n] \in Conditions
  BY DEF TypeOK
<1>4. ASSUME NEW n \in DOMAIN conditions, conditions[n].type = t => Same(c, conditions[n])
      PROVE  \E i \in DOMAIN calls' : calls'[i] = conditions[n] /\ Began(i)'
  <2>1. PICK i \in DOMAIN calls : calls[i] = conditions[n] /\ Began(i)
    BY DEF OnePerType
  <2>2. Began(i)'
    BY <1>4, <2>1, BeganKept
  <2> QED BY <1>1, <2>1, <2>2
<1>5. ASSUME \A j \in DOMAIN calls : calls[j].type = t /\ Same(calls[j], c) =>
                 \E m \in DOMAIN calls : calls[m].type = t /\ j < m /\ ~Same(calls[m], c)
      PROVE  \E i \in DOMAIN calls' : calls'[i] = c /\ Began(i)'
  <2>1. PICK i \in DOMAIN calls' : i = Len(calls) + 1
    BY <1>1
  <2>2. Began(i)' /\ calls'[i] = c
    BY <1>5, <2>1, BeginsAnew
  <2> QED BY <2>2
<1>6. CASE \A n \in DOMAIN conditions : conditions[n].type # t
  <2>1. conditions' = Append(conditions, c)
    BY <1>6, NoneOfType DEF SetCondition
  <2>2. /\ conditions' \in Seq(Conditions) /\ DOMAIN conditions' = 1..(Len(conditions) + 1)
        /\ conditions'[Len(conditions) + 1] = c
        /\ \A n \in 1..Len(conditions) : conditions'[n] = conditions[n]
    BY <1>c, <2>1 DEF TypeOK
  <2>3. t \notin Told
    BY <1>6 DEF OnePerType
  <2>4. \E i \in DOMAIN calls' : calls'[i] = c /\ Began(i)'
    BY <1>5, <2>3 DEF Told
  <2>5. \A n \in DOMAIN conditions' :
            \E i \in DOMAIN calls' : calls'[i] = conditions'[n] /\ Began(i)'
    <3> SUFFICES ASSUME NEW n \in DOMAIN conditions'
                 PROVE  \E i \in DOMAIN calls' : calls'[i] = conditions'[n] /\ Began(i)'
      OBVIOUS
    <3>1. CASE n = Len(conditions) + 1
      BY <2>2, <2>4, <3>1
    <3>2. CASE n # Len(conditions) + 1
      <4>1. n \in DOMAIN conditions /\ conditions'[n] = conditions[n]
        BY <1>3, <2>2, <3>2
      <4> QED BY <1>4, <1>6, <4>1
    <3> QED BY <3>1, <3>2
  <2>6. \A m, n \in DOMAIN conditions' : conditions'[m].type = conditions'[n].type => m = n
    BY <1>3, <1>6, <2>2 DEF OnePerType
  <2>7. Told' = {conditions'[n].type : n \in DOMAIN conditions'}
    BY <1>2, <1>3, <2>2 DEF OnePerType
  <2>8. \A n \in DOMAIN conditions' : conditions'[n].time <= now'
    BY <1>c, <1>3, <2>2 DEF OnePerType
  <2> HIDE DEF c
  <2> QED BY <1>1, <2>2, <2>5, <2>6, <2>7, <2>8 DEF OnePerType
<1>7. CASE \E n \in DOMAIN conditions : conditions[n].type = t
  <2>1. PICK n \in DOMAIN conditions : conditions[n].type = t
    BY <1>7
  <2>2. Index(t) = n /\ n # 0
    BY <1>3, <2>1, FoundOfType
  <2>3. \A m \in DOMAIN conditions : m # n => conditions[m].type # t
    BY <2>1 DEF OnePerType
  <2>4. t \in Told
    BY <2>1 DEF OnePerType
  <2>5. CASE Same(conditions[n], c)
    <3>1. conditions' = conditions
      BY <2>2, <2>5 DEF SetCondition, Same
    <3>2. \A m \in DOMAIN conditions : conditions[m].type = t => Same(c, conditions[m])
      BY <2>3, <2>5 DEF Same
    <3>3. Told' = Told
      BY <1>2, <2>4
    <3>4. \A m \in DOMAIN conditions :
              \E i \in DOMAIN calls' : calls'[i] = conditions[m] /\ Began(i)'
      BY <1>4, <3>2
    <3>5. OnePerType'
      <4>1. Told = {conditions[m].type : m \in DOMAIN conditions}
        BY DEF OnePerType
      <4>2. \A m \in DOMAIN conditions : conditions[m].time <= now
        BY DEF OnePerType
      <4>3. \A m, k \in DOMAIN conditions : conditions[m].type = conditions[k].type => m = k
        BY DEF OnePerType
      <4> QED BY <3>1, <3>3, <3>4, <4>1, <4>2, <4>3 DEF OnePerType
    <3> QED BY <1>1, <3>1, <3>5 DEF TypeOK
  <2>6. CASE ~Same(conditions[n], c)
    <3>1. conditions' = [conditions EXCEPT ![n] = c]
      BY <2>2, <2>6 DEF SetCondition, Same
    <3>2. /\ conditions' \in Seq(Conditions) /\ DOMAIN conditions' = DOMAIN conditions
          /\ conditions'[n] = c
          /\ \A m \in DOMAIN conditions : m # n => conditions'[m] = conditions[m]
      BY <1>c, <1>3, <3>1 DEF TypeOK
    <3>3. \A m \in DOMAIN conditions : conditions'[m].type = conditions[m].type
      BY <2>1, <3>2
    <3>4. Told' = {conditions'[m].type : m \in DOMAIN conditions'}
      <4>1. {conditions'[m].type : m \in DOMAIN conditions'} =
            {conditions[m].type : m \in DOMAIN conditions}
        BY <3>2, <3>3
      <4> QED BY <1>2, <2>4, <4>1 DEF OnePerType
    <3>5. \A j \in DOMAIN calls : calls[j].type = t /\ Same(calls[j], c) =>
              \E m \in DOMAIN calls : calls[m].type = t /\ j < m /\ ~Same(calls[m], c)
      <4>1. PICK i \in DOMAIN calls : calls[i] = conditions[n] /\ Began(i)
        BY DEF OnePerType
      <4>2. calls[i].type = t /\ ~Same(calls[i], c)
        BY <2>1, <2>6, <4>1
      <4>3. \A j \in DOMAIN calls : calls[j].type = t /\ j > i => Same(calls[j], calls[i])
        BY <4>1, <4>2 DEF Began
      <4>4. ASSUME NEW j \in DOMAIN calls, calls[j].type = t, Same(calls[j], c)
            PROVE  j < i
        <5>1. ~(j > i)
          BY <4>2, <4>3, <4>4 DEF Same
        <5>2. j # i
          BY <4>2, <4>4
        <5> QED BY <1>1, <5>1, <5>2
      <4> QED BY <4>2, <4>4
    <3>6. \E i \in DOMAIN calls' : calls'[i] = c /\ Began(i)'
      BY <1>5, <3>5
    <3>7. \A m \in DOMAIN conditions' :
              \E i \in DOMAIN calls' : calls'[i] = conditions'[m] /\ Began(i)'
      <4> HIDE DEF c
      <4> QED BY <1>4, <2>3, <3>2, <3>6
    <3>8. \A m, k \in DOMAIN conditions' : conditions'[m].type = conditions'[k].type => m = k
      BY <3>2, <3>3 DEF OnePerType
    <3>9. \A m \in DOMAIN conditions' : conditions'[m].time <= now'
      BY <1>c, <3>2 DEF OnePerType
    <3> HIDE DEF c
    <3> QED BY <1>1, <3>2, <3>4, <3>7, <3>8, <3>9 DEF OnePerType
  <2> QED BY <2>5, <2>6
<1> QED BY <1>6, <1>7

(***************************************************************************)
(* The errors                                                              *)
(***************************************************************************)
(* What a builder starts with, and what is added to it.                    *)
LEMMA BuilderType ==
    ASSUME NEW code \in ErrorCodes, NEW component \in Components
    PROVE  /\ NewErrorBuilder(code, component) \in DetailedErrors
           /\ NewErrorBuilder(code, component).detailed
           /\ NewErrorBuilder(code, component).code = code
           /\ NewErrorBuilder(code, component).severity = "Medium"
           /\ NewErrorBuilder(code, component).keys = {}
BY DEF NewErrorBuilder, DetailedErrors, Severities

LEMMA WithType ==
    ASSUME NEW e \in DetailedErrors, NEW keys \in SUBSET Keys,
           NEW severity \in Severities \cup {Unset}
    PROVE  /\ With(e, keys, severity) \in DetailedErrors
           /\ With(e, keys, severity).detailed <=> e.detailed
           /\ With(e, keys, severity).code = e.code
           /\ With(e, keys, severity).severity = severity
           /\ With(e, keys, severity).keys = e.keys \cup keys
BY DEF With, DetailedErrors

(* The constructors make critical errors of failed authentications only.   *)
LEMMA ConstructedFailed ==
    ASSUME NEW code \in ErrorCodes, NEW component \in Components, NEW keys \in SUBSET Keys,
           NEW severity \in Severities, severity = "Critical" <=> code = "Authentication"
    PROVE  /\ With(NewErrorBuilder(code, component), keys, severity) \in Failed
           /\ With(NewErrorBuilder(code, component), keys, severity).detailed
<1> DEFINE b == NewErrorBuilder(code, component)
<1>1. b \in DetailedErrors /\ b.detailed /\ b.code = code
  BY BuilderType
<1> HIDE DEF b
<1>2. /\ With(b, keys, severity) \in DetailedErrors
      /\ With(b, keys, severity).detailed
      /\ With(b, keys, severity).code = code
      /\ With(b, keys, severity).severity = severity
  BY <1>1, WithType
<1>3. With(b, keys, severity) \in Failed /\ With(b, keys, severity).detailed
  BY <1>1, <1>2 DEF Failed
<1> QED BY <1>3 DEF b

LEMMA NewErrorFailed ==
    ASSUME NEW kind \in Failures
    PROVE  NewError(kind) \in Failed /\ NewError(kind).detailed
<1> DEFINE b == Constructed[kind]
<1>1. /\ b.code \in ErrorCodes /\ b.component \in Components /\ b.keys \in SUBSET Keys
      /\ b.severity \in Severities /\ b.severity # "Critical" /\ b.code # "Authentication"
  <2>1. kind \in {"validation", "notFound", "dependency", "timeout", "configuration",
                  "discovery", "reconciliation"}
    BY FailuresAssumption DEF Constructed
  <2> QED BY <2>1 DEF Constructed, Builder, Severities, ErrorCodes, Components, Keys
<1>2. NewError(kind) = With(NewErrorBuilder(b.code, b.component), b.keys, b.severity)
  BY DEF NewError
<1> HIDE DEF b
<1> QED BY <1>1, <1>2, ConstructedFailed

LEMMA NewAPIErrorFailed ==
    ASSUME NEW status \in Int
    PROVE  NewAPIError(status) \in Failed /\ NewAPIError(status).detailed
<1>1. APIErrorCode(status) \in ErrorCodes
  BY DEF APIErrorCode, ErrorCodes
<1>2. APISeverity(status) \in Severities
  BY DEF APISeverity, Severities
<1>3. APISeverity(status) = "Critical" <=> APIErrorCode(status) = "Authentication"
  BY DEF APIErrorCode, APISeverity
<1>4. "TailscaleAPI" \in Components /\ {"endpoint"} \in SUBSET Keys
  BY DEF Components, Keys
<1>5. NewAPIError(status) =
        With(NewErrorBuilder(APIErrorCode(status), "TailscaleAPI"), {"endpoint"},
             APISeverity(status))
  BY DEF NewAPIError
<1> QED BY <1>1, <1>2, <1>3, <1>4, <1>5, ConstructedFailed

(* Wrapping makes a detailed error of any error; it keeps the severity and *)
(* the context of a detailed one and gives a plain one severity Medium.    *)
LEMMA WrapKeeps ==
    ASSUME NEW e \in DetailedErrors, NEW code \in Codes
    PROVE  LET w == Wrap(e, code, "Controller") IN
           /\ w \in DetailedErrors /\ w.detailed
           /\ e.detailed => w.severity = e.severity /\ w.keys = e.keys
           /\ ~e.detailed => w.severity = "Medium"
<1> DEFINE new == NewErrorBuilder(code, "Controller")
           w   == Wrap(e, code, "Controller")
<1>1. /\ new \in DetailedErrors /\ new.detailed
      /\ new.severity = "Medium" /\ new.keys = {}
  <2>1. code \in ErrorCodes /\ "Controller" \in Components
    BY DEF ErrorCodes, Components
  <2> QED BY <2>1, BuilderType
<1>2. w = IF e.detailed THEN With(new, e.keys, e.severity) ELSE new
  BY DEF Wrap
<1> HIDE DEF new, w
<1>3. e.keys \in SUBSET Keys /\ e.severity \in Severities \cup {Unset}
  BY DEF DetailedErrors
<1>4. /\ w \in DetailedErrors /\ w.detailed
      /\ e.detailed => w.severity = e.severity /\ w.keys = e.keys
      /\ ~e.detailed => w.severity = "Medium"
  <2>1. CASE e.detailed
    <3>1. w = With(new, e.keys, e.severity)
      BY <1>2, <2>1
    <3>2. /\ w \in DetailedErrors /\ w.detailed
          /\ w.severity = e.severity /\ w.keys = new.keys \cup e.keys
      <4>1. PICK keys \in SUBSET Keys, severity \in Severities \cup {Unset} :
              keys = e.keys /\ severity = e.severity
        BY <1>3
      <4>2. /\ With(new, keys, severity) \in DetailedErrors
            /\ With(new, keys, severity).detailed
            /\ With(new, keys, severity).severity = severity
            /\ With(new, keys, severity).keys = new.keys \cup keys
        <5>1. new \in DetailedErrors /\ new.detailed
          BY <1>1
        <5> QED BY <5>1, WithType
      <4> QED BY <3>1, <4>1, <4>2, Zenon
    <3> QED BY <1>1, <2>1, <3>2
  <2>2. CASE ~e.detailed
    BY <1>1, <1>2, <2>2
  <2> QED BY <2>1, <2>2
<1> QED BY <1>4 DEF w

(* An error recorded at the front, by either way, keeps the errors the end *)
(* of the log, whatever the length of the list.                            *)
LEMMA RecordedInFront ==
    ASSUME TypeOK, ErrorOnItsWay, NewestFirst, err # None,
           NEW e \in DetailedErrors, e.severity # Unset, AddError(e),
           NEW by \in {"AddError", "recordError"}, Recorded(by),
           by = "AddError" => e = err /\ err.detailed,
           by = "recordError" => e.severity = "High"
    PROVE  TypeOK' /\ ErrorOnItsWay' /\ NewestFirst'
<1> DEFINE o    == [error |-> origin.error, hidden |-> origin.hidden, by |-> by]
           list == <<e>> \o errors
<1>1. o \in [error : Failed, hidden : BOOLEAN, by : {"AddError", "recordError"}]
  BY DEF ErrorOnItsWay
<1>2. /\ log' \in Seq([error : Failed, hidden : BOOLEAN, by : {"AddError", "recordError"}])
      /\ Len(log) \in Nat /\ Len(log') = Len(log) + 1
      /\ log'[Len(log) + 1] = o /\ \A i \in 1..Len(log) : log'[i] = log[i]
  <2> HIDE DEF o
  <2>1. log' = Append(log, o)
    BY DEF Recorded, o
  <2> QED BY <1>1, <2>1 DEF TypeOK
<1>3. /\ Len(errors) \in Nat /\ DOMAIN errors = 1..Len(errors)
      /\ list \in Seq(DetailedErrors) /\ Len(list) = Len(errors) + 1
      /\ list[1] = e /\ \A j \in 1..Len(errors) : list[j + 1] = errors[j]
  BY DEF TypeOK
<1>4. errors' = Trimmed(list)
  BY DEF AddError
<1>5. /\ errors' \in Seq(DetailedErrors)
      /\ Len(errors') = IF Len(list) > MaxErrors THEN MaxErrors ELSE Len(list)
      /\ DOMAIN errors' = 1..Len(errors')
      /\ \A j \in DOMAIN errors' : errors'[j] = list[j]
  <2> HIDE DEF list
  <2>1. CASE Len(list) > MaxErrors
    <3>1. errors' = SubSeq(list, 1, MaxErrors)
      BY <1>4, <2>1 DEF Trimmed
    <3> QED BY <1>3, <2>1, <3>1, BoundAssumption
  <2>2. CASE ~(Len(list) > MaxErrors)
    BY <1>3, <1>4, <2>2 DEF Trimmed
  <2> QED BY <2>1, <2>2
<1>6. TypeOK'
  BY <1>2, <1>5 DEF TypeOK, Recorded
<1>7. ErrorOnItsWay'
  BY DEF ErrorOnItsWay, Recorded
<1>8. Len(errors') = IF Len(log') < MaxErrors THEN Len(log') ELSE MaxErrors
  BY <1>2, <1>3, <1>5, BoundAssumption DEF NewestFirst
<1>9. ASSUME NEW j \in DOMAIN errors'
      PROVE  LET origin_j == log'[Len(log') + 1 - j] IN
             /\ errors'[j].severity = IF Kept(origin_j) THEN origin_j.error.severity
                                      ELSE IF origin_j.by = "AddError" THEN "Medium" ELSE "High"
             /\ Kept(origin_j) => origin_j.error.keys \subseteq errors'[j].keys
  <2>1. CASE j = 1
    <3>1. errors'[j] = e /\ log'[Len(log') + 1 - j] = o
      <4> HIDE DEF o, list
      <4>1. Len(log') + 1 - j = Len(log) + 1
        BY <1>2, <2>1
      <4> QED BY <1>2, <1>3, <1>5, <2>1, <4>1
    <3>2. /\ e.severity = IF Kept(o) THEN o.error.severity
                          ELSE IF o.by = "AddError" THEN "Medium" ELSE "High"
          /\ Kept(o) => o.error.keys \subseteq e.keys
      <4>1. o.error = origin.error /\ o.hidden = origin.hidden /\ o.by = by
        OBVIOUS
      <4> HIDE DEF o
      <4>2. CASE by = "AddError"
        BY <4>1, <4>2 DEF Kept, ErrorOnItsWay
      <4>3. CASE by = "recordError"
        BY <4>1, <4>3 DEF Kept
      <4> QED BY <4>2, <4>3
    <3> HIDE DEF o
    <3> QED BY <3>1, <3>2
  <2>2. CASE j # 1
    <3> DEFINE k == j - 1
    <3>1. k \in DOMAIN errors /\ errors'[j] = errors[k]
      BY <1>3, <1>5, <2>2
    <3>2. k <= Len(log)
      BY <1>2, <1>3, <3>1, BoundAssumption DEF NewestFirst
    <3>3. log'[Len(log') + 1 - j] = log[Len(log) + 1 - k]
      <4>1. j \in Nat /\ k = j - 1 /\ k \in Nat
        BY <1>3, <1>5, <3>1
      <4> HIDE DEF k
      <4>2. /\ Len(log') + 1 - j = Len(log) + 1 - k
            /\ Len(log) + 1 - k \in 1..Len(log)
        BY <1>2, <1>3, <3>1, <3>2, <4>1
      <4> QED BY <1>2, <4>2
    <3> HIDE DEF k
    <3> QED BY <3>1, <3>3 DEF NewestFirst, Origin
  <2> QED BY <2>1, <2>2
<1>10. NewestFirst'
  BY <1>8, <1>9 DEF NewestFirst, Origin, Kept
<1> QED BY <1>6, <1>7, <1>10

(***************************************************************************)
(* The inductive invariant                                                 *)
(***************************************************************************)
LEMMA InitInv == Init => IInv
<1> SUFFICES ASSUME Init PROVE IInv
  OBVIOUS
<1>1. TypeOK
  BY DEF Init, TypeOK
<1>2. OnePerType
  BY DEF Init, OnePerType, Told
<1>3. ErrorOnItsWay
  BY DEF Init, ErrorOnItsWay
<1>4. NewestFirst
  BY BoundAssumption DEF Init, NewestFirst
<1> QED BY <1>1, <1>2, <1>3, <1>4 DEF IInv

(* What concerns the conditions is kept by every step that leaves them,    *)
(* and what concerns the errors by every step that leaves those.           *)
LEMMA ConditionsLeft ==
    ASSUME OnePerType, conditions' = conditions, calls' = calls, now' \in Nat, now <= now',
           TypeOK
    PROVE  OnePerType'
<1>1. Told' = Told
  BY DEF Told
<1>2. \A i : Began(i)' <=> Began(i)
  BY DEF Began, Same
<1>3. \A n \in DOMAIN conditions : conditions[n].time \in Nat
  <2>1. \A n \in DOMAIN conditions : conditions[n] \in Conditions
    BY DEF TypeOK
  <2> QED BY <2>1 DEF Conditions
<1>4. \A n \in DOMAIN conditions : conditions[n].time <= now'
  BY <1>3 DEF TypeOK, OnePerType
<1> QED BY <1>1, <1>2, <1>4 DEF OnePerType

LEMMA ErrorsLeft ==
    ASSUME NewestFirst, errors' = errors, log' = log
    PROVE  NewestFirst'
BY DEF NewestFirst, Origin, Kept

LEMMA NextInv == IInv /\ [Next]_vars => IInv'
<1> SUFFICES ASSUME IInv, [Next]_vars PROVE IInv'
  OBVIOUS
<1> USE DEF IInv
<1>1. CASE Tick
  <2>1. now' \in Nat /\ now <= now'
    BY <1>1 DEF Tick, TypeOK
  <2>2. TypeOK'
    BY <1>1, <2>1 DEF Tick, TypeOK
  <2>3. OnePerType'
    BY <1>1, <2>1, ConditionsLeft DEF Tick
  <2>4. ErrorOnItsWay'
    BY <1>1 DEF Tick, ErrorOnItsWay
  <2>5. NewestFirst'
    BY <1>1, ErrorsLeft DEF Tick
  <2> QED BY <2>2, <2>3, <2>4, <2>5
<1>2. CASE Set
  <2>1. conditions' \in Seq(Conditions) /\ calls' \in Seq(Conditions) /\ OnePerType'
    BY <1>2, SetOnePerType DEF Set
  <2>2. TypeOK'
    BY <1>2, <2>1 DEF Set, TypeOK
  <2>3. ErrorOnItsWay'
    BY <1>2 DEF Set, ErrorOnItsWay
  <2>4. NewestFirst'
    BY <1>2, ErrorsLeft DEF Set
  <2> QED BY <2>1, <2>2, <2>3, <2>4
<1>3. ASSUME \/ Fail \/ WrapError \/ Hide
      PROVE  TypeOK' /\ OnePerType' /\ NewestFirst'
  <2>1. /\ UNCHANGED <<now, conditions, errors, calls, log>>
        /\ layers' \in Nat
    BY <1>3 DEF Fail, WrapError, Hide, TypeOK
  <2>2. TypeOK'
    BY <2>1 DEF TypeOK
  <2>3. OnePerType'
    BY <2>1, ConditionsLeft DEF TypeOK
  <2>4. NewestFirst'
    BY <2>1, ErrorsLeft
  <2> QED BY <2>2, <2>3, <2>4
<1>4. CASE Fail
  <2>1. /\ err' \in Failed /\ err'.detailed
        /\ origin' = [error |-> err', hidden |-> FALSE]
    BY <1>4, NewErrorFailed, NewAPIErrorFailed, StatusAssumption DEF Fail
  <2>2. ErrorOnItsWay'
    BY <2>1 DEF ErrorOnItsWay, Failed
  <2> QED BY <1>3, <1>4, <2>2
<1>5. CASE WrapError
  <2>1. PICK code \in Codes, keys \in {{}, {"name", "namespace"}} :
          LET e == Wrap(err, code, "Controller") IN err' = With(e, keys, e.severity)
    BY <1>5 DEF WrapError
  <2>2. err \in DetailedErrors /\ origin' = origin /\ err # None
    BY <1>5 DEF WrapError, ErrorOnItsWay
  <2> DEFINE w == Wrap(err, code, "Controller")
  <2>3. /\ w \in DetailedErrors /\ w.detailed
        /\ err.detailed => w.severity = err.severity /\ w.keys = err.keys
        /\ ~err.detailed => w.severity = "Medium"
    BY <2>2, WrapKeeps
  <2>4. err' = With(w, keys, w.severity)
    BY <2>1
  <2> HIDE DEF w
  <2>5. keys \in SUBSET Keys /\ w.severity \in Severities \cup {Unset}
    BY <2>3 DEF Keys, DetailedErrors
  <2>6. /\ err' \in DetailedErrors /\ err'.detailed /\ err'.severity = w.severity
        /\ err'.keys = w.keys \cup keys
    <3>1. PICK severity \in Severities \cup {Unset} : severity = w.severity
      BY <2>5
    <3>2. /\ With(w, keys, severity) \in DetailedErrors
          /\ With(w, keys, severity).detailed
          /\ With(w, keys, severity).severity = severity
          /\ With(w, keys, severity).keys = w.keys \cup keys
      BY <2>3, <2>5, WithType
    <3> QED BY <2>4, <3>1, <3>2, Zenon
  <2>7. ErrorOnItsWay'
    <3>1. CASE err.detailed
      BY <2>2, <2>3, <2>6, <3>1 DEF ErrorOnItsWay
    <3>2. CASE ~err.detailed
      BY <2>2, <2>3, <2>6, <3>2 DEF ErrorOnItsWay
    <3> QED BY <3>1, <3>2
  <2> QED BY <1>3, <1>5, <2>7
<1>6. CASE Hide
  <2>1. /\ err' \in DetailedErrors /\ ~err'.detailed
        /\ origin' = [origin EXCEPT !.hidden = TRUE]
    BY <1>6 DEF Hide, DetailedErrors
  <2>2. origin \in [error : Failed, hidden : BOOLEAN]
    BY <1>6 DEF Hide, ErrorOnItsWay
  <2>3. origin' \in [error : Failed, hidden : BOOLEAN] /\ origin'.hidden
    BY <2>1, <2>2
  <2>4. ErrorOnItsWay'
    BY <2>1, <2>3 DEF ErrorOnItsWay
  <2> QED BY <1>3, <1>6, <2>4
<1>7. ASSUME Record \/ RecordError PROVE OnePerType'
  BY <1>7, ConditionsLeft DEF Record, RecordError, Recorded, TypeOK
<1>8. CASE Record
  <2>1. err \in DetailedErrors /\ err.detailed /\ err # None
    BY <1>8 DEF Record, ErrorOnItsWay
  <2>2. err.severity # Unset
    <3>1. err.severity \in Severities
      BY <2>1 DEF ErrorOnItsWay, Failed, Severities
    <3> QED BY <3>1, UnsetAssumption
  <2>3. AddError(err) /\ Recorded("AddError")
    BY <1>8 DEF Record
  <2> QED BY <1>7, <1>8, <2>1, <2>2, <2>3, RecordedInFront
<1>9. CASE RecordError
  <2> DEFINE b == NewErrorBuilder("Reconciliation", "controller")
             e == With(b, {"tailnet", "namespace"}, "High")
  <2>1. b \in DetailedErrors
    <3>1. "Reconciliation" \in ErrorCodes /\ "controller" \in Components
      BY DEF ErrorCodes, Components
    <3> QED BY <3>1, BuilderType
  <2>2. AddError(e) /\ Recorded("recordError") /\ err # None
    BY <1>9 DEF RecordError
  <2> HIDE DEF b
  <2>3. e \in DetailedErrors /\ e.severity = "High"
    <3>1. {"tailnet", "namespace"} \in SUBSET Keys /\ "High" \in Severities \cup {Unset}
      BY DEF Keys, Severities
    <3> QED BY <2>1, <3>1, WithType
  <2>4. e.severity # Unset
    BY <2>3, UnsetAssumption DEF Severities
  <2> HIDE DEF e
  <2> QED BY <1>7, <1>9, <2>2, <2>3, <2>4, RecordedInFront
<1>10. CASE UNCHANGED vars
  <2>1. TypeOK'
    BY <1>10 DEF vars, TypeOK
  <2>2. OnePerType'
    BY <1>10, ConditionsLeft DEF vars, TypeOK
  <2>3. ErrorOnItsWay'
    BY <1>10 DEF vars, ErrorOnItsWay
  <2>4. NewestFirst'
    BY <1>10, ErrorsLeft DEF vars
  <2> QED BY <2>1, <2>2, <2>3, <2>4
<1> QED BY <1>1, <1>2, <1>4, <1>5, <1>6, <1>8, <1>9, <1>10 DEF Next

(* In every state there is one condition per type, which is the call its   *)
(* type began to be so with, and the recorded errors are the end of the    *)
(* log: what SetCondition and AddError maintain.                           *)
THEOREM StatusInvariant == Spec => []IInv
<1> QED BY InitInv, NextInv, PTL DEF Spec

(***************************************************************************)
(* What the conditions tell                                                *)
(***************************************************************************)
(* A set of naturals that is not empty has a least element...              *)
LEMMA LeastElement ==
    ASSUME NEW T, T \subseteq Nat, T # {}
    PROVE  \E x \in T : \A y \in T : x <= y
<1> DEFINE R == {p \in Nat \X Nat : p[1] < p[2]}
<1>1. IsWellFoundedOn(R, Nat)
  BY NatLessThanWellFounded DEF OpToRel
<1>2. PICK x \in T : \A y \in T : ~(<<y, x>> \in R)
  <2> HIDE DEF R
  <2> QED BY <1>1, WFMin, Zenon
<1>3. ASSUME NEW y \in T, y < x PROVE FALSE
  <2>1. <<y, x>> \in Nat \X Nat /\ <<y, x>>[1] < <<y, x>>[2]
    BY <1>3
  <2>2. <<y, x>> \in R
    BY <2>1, Zenon
  <2> QED BY <1>2, <2>2
<1> QED BY <1>3

(* ...and, when it is bounded, a greatest one: the least of its bounds.    *)
LEMMA GreatestElement ==
    ASSUME NEW T, T \subseteq Nat, T # {}, NEW b \in Nat, \A y \in T : y <= b
    PROVE  Max(T) \in T /\ \A y \in T : y <= Max(T)
<1> DEFINE Bounds == {u \in Nat : \A y \in T : y <= u}
<1>1. PICK u \in Bounds : \A v \in Bounds : u <= v
  <2>1. Bounds \subseteq Nat /\ Bounds # {}
    OBVIOUS
  <2> QED BY <2>1, LeastElement
<1>2. u \in T
  <2> SUFFICES ASSUME u \notin T PROVE FALSE
    OBVIOUS
  <2>1. \A y \in T : y <= u - 1
    OBVIOUS
  <2>2. u - 1 \in Nat
    <3>1. PICK y \in T : TRUE
      OBVIOUS
    <3>2. y \in Nat /\ y <= u - 1
      BY <2>1
    <3> QED BY <3>2
  <2>3. u - 1 \in Bounds
    BY <2>1, <2>2
  <2> QED BY <1>1, <2>3
<1> QED BY <1>1, <1>2 DEF Max

(* The indices of a list.                                                  *)
LEMMA IndicesCounted ==
    ASSUME NEW n \in Nat
    PROVE  IsFiniteSet(1..n) /\ Cardinality(1..n) = n
<1>1. Cardinality(1..n) = IF 1 > n THEN 0 ELSE n - 1 + 1
  BY FS_Interval
<1> QED BY <1>1, FS_Interval

(* As many types are told of as there are conditions.                      *)
LEMMA TypesCounted ==
    ASSUME TypeOK, OnePerType, NEW S \in SUBSET DOMAIN conditions
    PROVE  /\ IsFiniteSet(S)
           /\ Cardinality({conditions[n].type : n \in S}) = Cardinality(S)
<1> DEFINE T == {conditions[n].type : n \in S}
           f == [n \in S |-> conditions[n].type]
<1>1. IsFiniteSet(S)
  <2>1. IsFiniteSet(1..Len(conditions)) /\ DOMAIN conditions = 1..Len(conditions)
    BY FS_Interval DEF TypeOK
  <2> QED BY <2>1, FS_Subset
<1>2. f \in Bijection(S, T)
  BY DEF OnePerType, Bijection, Injection, Surjection, IsInjective
<1> QED BY <1>1, <1>2, FS_Bijection DEF ExistsBijection

(* Disjoint sets are counted one after the other.                          *)
LEMMA DisjointCounted ==
    ASSUME NEW S, IsFiniteSet(S), NEW T, IsFiniteSet(T), S \cap T = {}
    PROVE  IsFiniteSet(S \cup T) /\ Cardinality(S \cup T) = Cardinality(S) + Cardinality(T)
<1>1. Cardinality(S) \in Nat /\ Cardinality(T) \in Nat
  BY FS_CardinalityType
<1>2. Cardinality(S \cap T) = 0
  BY FS_EmptySet
<1>3. /\ IsFiniteSet(S \cup T)
      /\ Cardinality(S \cup T) = Cardinality(S) + Cardinality(T) - Cardinality(S \cap T)
  BY FS_Union, Zenon
<1> QED BY <1>1, <1>2, <1>3

(* Each condition has one of three statuses.                               *)
LEMMA StatusesCounted ==
    ASSUME TypeOK
    PROVE  LET Number(status) ==
                   Cardinality({n \in DOMAIN conditions : conditions[n].status = status})
           IN  Number("False") + Number("Unknown") + Number("True") = Len(conditions)
<1> DEFINE F == {n \in DOMAIN conditions : conditions[n].status = "False"}
           U == {n \in DOMAIN conditions : conditions[n].status = "Unknown"}
           T == {n \in DOMAIN conditions : conditions[n].status = "True"}
<1>1. /\ DOMAIN conditions = 1..Len(conditions) /\ Len(conditions) \in Nat
      /\ \A n \in DOMAIN conditions : conditions[n].status \in Statuses
  <2>1. \A n \in DOMAIN conditions : conditions[n] \in Conditions
    BY DEF TypeOK
  <2> QED BY <2>1 DEF TypeOK, Conditions
<1>2. /\ IsFiniteSet(DOMAIN conditions)
      /\ Cardinality(DOMAIN conditions) = Len(conditions)
  BY <1>1, FS_Interval
<1>3. IsFiniteSet(F) /\ IsFiniteSet(U) /\ IsFiniteSet(T)
  BY <1>2, FS_Subset
<1>4. F \cap U = {} /\ (F \cup U) \cap T = {}
  OBVIOUS
<1>5. DOMAIN conditions = (F \cup U) \cup T
  BY <1>1 DEF Statuses
<1>6. Cardinality(F) + Cardinality(U) + Cardinality(T) = Len(conditions)
  <2> HIDE DEF F, U, T
  <2>1. IsFiniteSet(F \cup U) /\ Cardinality(F \cup U) = Cardinality(F) + Cardinality(U)
    BY <1>3, <1>4, DisjointCounted
  <2>2. Cardinality((F \cup U) \cup T) = Cardinality(F \cup U) + Cardinality(T)
    BY <1>3, <1>4, <2>1, DisjointCounted
  <2> QED BY <1>2, <1>5, <2>1, <2>2
<1> QED BY <1>6

(* The conditions tell the latest, as the summary does.                    *)
LEMMA InvTellsTheLatest ==
    ASSUME IInv
    PROVE  ConditionsTellTheLatest
<1> USE DEF IInv
<1>1. /\ DOMAIN conditions = 1..Len(conditions) /\ Len(conditions) \in Nat
      /\ \A n \in DOMAIN conditions :
            /\ conditions[n].type \in Types /\ conditions[n].status \in Statuses
            /\ conditions[n].time \in Nat
  <2>1. \A n \in DOMAIN conditions : conditions[n] \in Conditions
    BY DEF TypeOK
  <2> QED BY <2>1 DEF TypeOK, Conditions
<1>2. \A t \in Told : \E n \in DOMAIN conditions :
          t = conditions[n].type /\ GetCondition(t) = conditions[n]
  BY ToldIsFound DEF OnePerType
<1>3. \A t \in Told :
          \E i \in DOMAIN calls : calls[i].type = t /\ Began(i) /\ GetCondition(t) = calls[i]
  BY <1>2 DEF OnePerType
<1> DEFINE True == {n \in DOMAIN conditions : conditions[n].status = "True"}
<1>4. Summary.holds = {conditions[n].type : n \in True}
  <2> DEFINE OfType(t) == {n \in DOMAIN conditions : conditions[n].type = t}
  <2>1. \A n \in DOMAIN conditions : Max(OfType(conditions[n].type)) = n
    <3> TAKE n \in DOMAIN conditions
    <3>1. OfType(conditions[n].type) = {n}
      BY DEF OnePerType
    <3>2. Max({n}) = n
      BY <1>1 DEF Max
    <3> QED BY <3>1, <3>2
  <2>2. Summary.holds =
          {t \in Types : OfType(t) # {} /\ conditions[Max(OfType(t))].status = "True"}
    BY DEF Summary
  <2>3. ASSUME NEW t \in Summary.holds PROVE t \in {conditions[n].type : n \in True}
    <3>1. PICK n \in OfType(t) : TRUE
      BY <2>2, <2>3
    <3>2. conditions[n].status = "True"
      BY <2>1, <2>2, <2>3, <3>1
    <3> QED BY <3>1, <3>2
  <2>4. ASSUME NEW n \in True PROVE conditions[n].type \in Summary.holds
    <3>1. n \in OfType(conditions[n].type)
      OBVIOUS
    <3> HIDE DEF OfType
    <3> QED BY <1>1, <2>1, <2>2, <3>1
  <2> QED BY <2>3, <2>4
<1>5. Summary.holds = {t \in Told : GetCondition(t).status = "True"}
  <2>1. \A n \in DOMAIN conditions :
            conditions[n].type \in Told /\ GetCondition(conditions[n].type) = conditions[n]
    BY ToldIsFound DEF OnePerType
  <2> QED BY <1>2, <1>4, <2>1
<1>6. Summary.total = Len(conditions)
  BY DEF Summary
<1>7. Len(conditions) = Cardinality(Told)
  <2>1. Told = {conditions[n].type : n \in DOMAIN conditions}
    BY DEF OnePerType
  <2>2. Cardinality(DOMAIN conditions) = Len(conditions)
    BY <1>1, FS_Interval
  <2> QED BY <2>1, <2>2, TypesCounted
<1>8. Summary.error + Summary.unknown + Cardinality(Summary.holds) = Len(conditions)
  <2>1. Cardinality(Summary.holds) = Cardinality(True)
    BY <1>4, TypesCounted
  <2> QED BY <2>1, StatusesCounted DEF Summary
<1>9. \A t \in Told : GetCondition(t).time <= Summary.last
  <2> DEFINE Times == {0} \cup {conditions[n].time : n \in DOMAIN conditions}
  <2>1. Times \subseteq Nat /\ Times # {} /\ now \in Nat /\ \A y \in Times : y <= now
    BY <1>1 DEF OnePerType, TypeOK
  <2>2. \A y \in Times : y <= Max(Times)
    <3> HIDE DEF Times
    <3> QED BY <2>1, GreatestElement
  <2>3. Summary.last = Max(Times)
    BY DEF Summary
  <2>4. \A n \in DOMAIN conditions : conditions[n].time \in Times
    OBVIOUS
  <2> QED BY <1>2, <2>2, <2>3, <2>4
<1> QED BY <1>3, <1>5, <1>6, <1>7, <1>8, <1>9 DEF ConditionsTellTheLatest

(* SetCondition leaves one condition for each type that was ever set, with *)
(* the status and the reason set last and the time since when they hold,   *)
(* and GetConditionSummary counts each type once.                          *)
THEOREM ConditionsAreTheLatest == Spec => []ConditionsTellTheLatest
<1>1. IInv => ConditionsTellTheLatest
  BY InvTellsTheLatest
<1> QED BY <1>1, StatusInvariant, PTL

(***************************************************************************)
(* What the recent errors tell                                             *)
(***************************************************************************)
(* Among subsets of a finite set one is smallest.                          *)
LEMMA SmallestSubset ==
    ASSUME NEW S, IsFiniteSet(S), NEW C, C \subseteq SUBSET S, C # {}
    PROVE  \E s \in C : \A x \in s : s \ {x} \notin C
<1> DEFINE R == StrictSubsetOrdering(S)
<1>1. IsWellFoundedOn(R, SUBSET S)
  BY FS_StrictSubsetOrderingWellFounded, FS_FiniteSubsetsOfFinite
<1>2. PICK s \in C : \A y \in C : ~(<<y, s>> \in R)
  <2> HIDE DEF R
  <2> QED BY <1>1, WFMin, Zenon
<1>3. ASSUME NEW x \in s, s \ {x} \in C PROVE FALSE
  <2>1. <<s \ {x}, s>> \in R
    BY <1>3 DEF StrictSubsetOrdering
  <2> QED BY <1>2, <1>3, <2>1
<1> QED BY <1>3

(* Adding up how many indices have each key counts the indices.            *)
LEMMA SumOfCounts ==
    ASSUME NEW D, IsFiniteSet(D), NEW key, key \in [D -> {key[i] : i \in D}]
    PROVE  FoldFunction(+, 0, [p \in {key[i] : i \in D} |->
                                  Cardinality({i \in D : key[i] = p})])
              = Cardinality(D)
<1> DEFINE K         == {key[i] : i \in D}
           count     == [p \in K |-> Cardinality({i \in D : key[i] = p})]
           In(s)     == {i \in D : key[i] \in s}
           chosen(s) == CHOOSE x \in s : TRUE
           Sum(it)   == it = [s \in SUBSET K |->
                          IF s = {} THEN 0 ELSE count[chosen(s)] + it[s \ {chosen(s)}]]
           iter      == CHOOSE it : Sum(it)
           g         == [s \in SUBSET K |-> Cardinality(In(s))]
<1>1. FoldFunction(+, 0, count) = iter[K]
  BY DEF FoldFunction, FoldFunctionOnSet, MapThenFoldSet
<1>2. \A s : IsFiniteSet(In(s)) /\ Cardinality(In(s)) \in Nat
  BY FS_Subset, FS_CardinalityType
<1>3. ASSUME NEW s \in SUBSET K, s # {}
      PROVE  /\ chosen(s) \in s /\ chosen(s) \in K /\ s \ {chosen(s)} \in SUBSET K
             /\ g[s] = count[chosen(s)] + g[s \ {chosen(s)}]
  <2>1. PICK x : x = chosen(s)
    OBVIOUS
  <2>2. x \in s
    BY <1>3, <2>1
  <2>3. In(s) = {i \in D : key[i] = x} \cup In(s \ {x})
    BY <2>2
  <2>4. {i \in D : key[i] = x} \cap In(s \ {x}) = {}
    OBVIOUS
  <2>5. IsFiniteSet({i \in D : key[i] = x})
    BY FS_Subset
  <2>6. Cardinality(In(s)) = Cardinality({i \in D : key[i] = x}) + Cardinality(In(s \ {x}))
    BY <1>2, <2>3, <2>4, <2>5, DisjointCounted
  <2> QED BY <2>1, <2>2, <2>6
<1>4. Sum(g)
  <2>1. g[{}] = 0
    <3>1. In({}) = {}
      OBVIOUS
    <3> QED BY <3>1, FS_EmptySet
  <2>2. \A s \in SUBSET K :
            g[s] = IF s = {} THEN 0 ELSE count[chosen(s)] + g[s \ {chosen(s)}]
    BY <1>3, <2>1
  <2> HIDE DEF chosen, count, In, K
  <2> QED BY <2>2
<1>5. Sum(iter)
  <2> HIDE DEF Sum, g
  <2> QED BY <1>4
<1>6. \A s \in SUBSET K : iter[s] = g[s]
  <2> DEFINE C == {s \in SUBSET K : iter[s] # g[s]}
  <2>1. SUFFICES ASSUME C # {} PROVE FALSE
    OBVIOUS
  <2>2. IsFiniteSet(K)
    <3>1. key \in Surjection(D, K)
      BY DEF Surjection
    <3> QED BY <3>1, FS_Surjection
  <2>3. PICK s \in C : \A x \in s : s \ {x} \notin C
    BY <2>1, <2>2, SmallestSubset
  <2>4. s # {}
    BY <1>4, <1>5
  <2>5. iter[s] = count[chosen(s)] + iter[s \ {chosen(s)}]
    BY <1>5, <2>4
  <2>6. iter[s \ {chosen(s)}] = g[s \ {chosen(s)}]
    BY <1>3, <2>3, <2>4
  <2> QED BY <1>3, <2>3, <2>4, <2>5, <2>6
<1>7. g[K] = Cardinality(D)
  <2>1. In(K) = D
    OBVIOUS
  <2> QED BY <2>1
<1> QED BY <1>1, <1>6, <1>7

(* The recent errors tell the failures: a critical one is there when a     *)
(* failed authentication was recorded as it came.                          *)
LEMMA InvTellsTheFailures ==
    ASSUME IInv
    PROVE  RecentErrorsTellTheFailures
<1> USE DEF IInv
<1>1. DOMAIN errors = 1..Len(errors) /\ Len(errors) \in Nat
  BY DEF TypeOK
<1>2. ASSUME NEW j \in DOMAIN errors
      PROVE  Origin(j).error.severity = "Critical" <=> Origin(j).error.code = "Authentication"
  <2>1. Len(log) + 1 - j \in DOMAIN log
    BY <1>1, BoundAssumption DEF TypeOK, NewestFirst
  <2>2. Origin(j) \in [error : Failed, hidden : BOOLEAN, by : {"AddError", "recordError"}]
    <3> DEFINE Origins == [error : Failed, hidden : BOOLEAN, by : {"AddError", "recordError"}]
    <3>1. log \in Seq(Origins)
      BY DEF TypeOK
    <3>2. PICK k \in DOMAIN log : k = Len(log) + 1 - j
      BY <2>1
    <3> HIDE DEF Origins
    <3>3. log[k] \in Origins
      BY <3>1
    <3>4. Origin(j) \in Origins
      BY <3>2, <3>3 DEF Origin
    <3> QED BY <3>4 DEF Origins
  <2>3. Origin(j).error \in Failed
    BY <2>2
  <2> QED BY <2>3 DEF Failed
<1>3. HasCriticalErrors <=>
        \E j \in DOMAIN errors : Kept(Origin(j)) /\ Origin(j).error.code = "Authentication"
  BY <1>2 DEF HasCriticalErrors, NewestFirst
<1>4. FoldFunction(+, 0, ErrorSummary) = Len(errors)
  <2> DEFINE D   == DOMAIN errors
             key == [i \in D |-> <<errors[i].component, errors[i].severity>>]
  <2>1. IsFiniteSet(D) /\ Cardinality(D) = Len(errors)
    <3>1. /\ IsFiniteSet(1..Len(errors))
          /\ Cardinality(1..Len(errors)) = Len(errors)
      BY <1>1, IndicesCounted
    <3> QED BY <1>1, <3>1
  <2>2. key \in [D -> {key[i] : i \in D}]
    OBVIOUS
  <2>3. ErrorSummary = [p \in {key[i] : i \in D} |-> Cardinality({i \in D : key[i] = p})]
    <3>1. \A p : {i \in DOMAIN errors : <<errors[i].component, errors[i].severity>> = p} =
                 {i \in D : key[i] = p}
      OBVIOUS
    <3>2. {<<errors[i].component, errors[i].severity>> : i \in DOMAIN errors} =
          {key[i] : i \in D}
      OBVIOUS
    <3> QED BY <3>1, <3>2 DEF ErrorSummary
  <2> HIDE DEF D, key
  <2> QED BY <2>1, <2>2, <2>3, SumOfCounts
<1> QED BY <1>3, <1>4 DEF RecentErrorsTellTheFailures

(* AddError and the wrappers before it: the recent errors are the newest   *)
(* of those recorded, each with the severity and the context it started    *)
(* with unless it was hidden, and GetErrorSummary counts each once.        *)
THEOREM RecentErrorsAreTheFailures == Spec => []RecentErrorsTellTheFailures
<1>1. IInv => RecentErrorsTellTheFailures
  BY InvTellsTheFailures
<1> QED BY <1>1, StatusInvariant, PTL
=============================================================================
