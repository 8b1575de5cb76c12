-------------------------- MODULE ResourceStatus --------------------------
(***************************************************************************)
(* What a status tells of the past: its conditions                         *)
(* (src/api/v1alpha1/status_conditions.go, SetCondition and the functions  *)
(* that read them) and its most recent errors (AddError), fed by the       *)
(* errors of src/internal/errors/errors.go, which callers wrap before they *)
(* are recorded, and by recordError of the TailscaleTailnet controller.    *)
(*                                                                         *)
(* Messages, hints and the timestamps of errors are left out.  The context *)
(* of an error is the set of its keys.  calls and log record history: the  *)
(* calls of SetCondition, and where each recorded error comes from.        *)
(***************************************************************************)
EXTENDS Integers, Sequences, SequencesExt, FiniteSets

CONSTANTS
    None,        \* no error, no condition
    Unset,       \* the empty string
    Types, Reasons,
    HTTPStatus,  \* of failed requests
    Failures,    \* the constructors that fail, among DOMAIN Constructed
    Codes,       \* that callers give the errors they wrap
    MaxErrors,   \* maxErrors; 10 in recordError
    MaxLayers,   \* bound on the times an error is wrapped
    MaxTime,     \* bound on the clock
    MaxWrites    \* bound on the conditions set and errors recorded

Statuses == {"True", "False", "Unknown"}
Severities == {"Critical", "High", "Medium"}

ASSUME BoundAssumption == MaxErrors \in Nat
ASSUME StatusAssumption == HTTPStatus \subseteq Int
ASSUME UnsetAssumption == Unset \notin Severities

VARIABLES
    now,
    conditions,  \* Status.Conditions
    errors,      \* Status.RecentErrors, the newest first
    err,         \* the error on its way up
    layers,      \* how often it was wrapped
    origin,      \* the error it started as, and whether a plain error hid it
    calls,       \* the history of SetCondition
    log          \* the origins of all recorded errors, the newest last

vars == <<now, conditions, errors, err, layers, origin, calls, log>>

Init ==
    /\ now = 0 /\ conditions = <<>> /\ errors = <<>>
    /\ err = None /\ layers = 0 /\ origin = None
    /\ calls = <<>> /\ log = <<>>

Tick ==
    /\ now < MaxTime /\ now' = now + 1
    /\ UNCHANGED <<conditions, errors, err, layers, origin, calls, log>>

MayWrite == Len(calls) + Len(log) < MaxWrites

(***************************************************************************)
(* Conditions                                                              *)
(***************************************************************************)
(* Where the first condition of a type is; 0 when there is none. *)
Index(t) == SelectInSeq(conditions, LAMBDA c : c.type = t)

(* Replacing a condition that only changes its message too. *)
SetCondition_Mutant(t, status, reason) ==
    LET new == [type |-> t, status |-> status, reason |-> reason, time |-> now] IN
    conditions' = IF \E i \in DOMAIN conditions : conditions[i].type = t
                  THEN [i \in DOMAIN conditions |->
                            IF conditions[i].type = t THEN new ELSE conditions[i]]
                  ELSE Append(conditions, new)

(* The first condition of the type is replaced when its status or its      *)
(* reason changes, and keeps its time otherwise.                           *)
SetCondition(t, status, reason) ==
    LET new  == [type |-> t, status |-> status, reason |-> reason, time |-> now]
        here == Index(t)
    IN  conditions' = IF here = 0 THEN Append(conditions, new)
                      ELSE IF /\ conditions[here].status = status
                              /\ conditions[here].reason = reason
                           THEN conditions
                           ELSE [conditions EXCEPT ![here] = new]

(* SetReadyCondition and the others set True or False, SetCondition any.   *)
Set ==
    /\ MayWrite
    /\ \E t \in Types, status \in Statuses, reason \in Reasons :
        /\ SetCondition(t, status, reason)
        /\ calls' = Append(calls, [type |-> t, status |-> status, reason |-> reason,
                                   time |-> now])
    /\ UNCHANGED <<now, errors, err, layers, origin, log>>

GetCondition(t) ==
    IF Index(t) = 0 THEN None ELSE conditions[Index(t)]

(* GetConditionSummary: the last condition of a type counts. *)
Summary ==
    LET OfType(t)      == {n \in DOMAIN conditions : conditions[n].type = t}
        Number(status) == Cardinality({n \in DOMAIN conditions : conditions[n].status = status})
    IN  [holds |-> {t \in Types : OfType(t) # {} /\ conditions[Max(OfType(t))].status = "True"},
         last |-> Max({0} \cup {conditions[n].time : n \in DOMAIN conditions}),
         error |-> Number("False"), unknown |-> Number("Unknown"), total |-> Len(conditions)]

(***************************************************************************)
(* Building and wrapping errors                                            *)
(***************************************************************************)
(* NewErrorBuilder: severity Medium and no context. *)
NewErrorBuilder(code, component) ==
    [detailed |-> TRUE, code |-> code, component |-> component, severity |-> "Medium",
     keys |-> {}]

With(e, keys, severity) == [e EXCEPT !.keys = @ \cup keys, !.severity = severity]

APIErrorCode(status) ==
    CASE status \in {401, 403} -> "Authentication"
      [] status = 404          -> "ResourceNotFound"
      [] status = 429          -> "RateLimit"
      [] status \in {408, 504} -> "Timeout"
      [] OTHER                 -> "APIConnection"

APISeverity(status) ==
    CASE status \in {401, 403} -> "Critical" [] status = 429 -> "Medium" [] OTHER -> "High"

Builder(code, component, keys, severity) ==
    [code |-> code, component |-> component, keys |-> keys, severity |-> severity]

(* The predefined builders but NewAPIError. *)
Constructed == [
    validation     |-> Builder("Validation", "Validation", {"field", "value"}, "High"),
    notFound       |-> Builder("ResourceNotFound", "Controller", {}, "High"),
    dependency     |-> Builder("Dependency", "Controller",
                               {"dependent_resource", "required_resource"}, "High"),
    timeout        |-> Builder("Timeout", "Controller", {"operation", "timeout"}, "Medium"),
    configuration  |-> Builder("Configuration", "Controller", {"config_field"}, "High"),
    discovery      |-> Builder("ServiceDiscovery", "ServiceDiscovery",
                               {"service_name", "tailnet"}, "Medium"),
    reconciliation |-> Builder("Reconciliation", "Controller",
                               {"resource_name", "operation"}, "High")]

ASSUME FailuresAssumption == Failures \subseteq DOMAIN Constructed

NewError(kind) ==
    LET b == Constructed[kind]
    IN  With(NewErrorBuilder(b.code, b.component), b.keys, b.severity)

NewAPIError(status) ==
    With(NewErrorBuilder(APIErrorCode(status), "TailscaleAPI"), {"endpoint"}, APISeverity(status))

Fail ==
    /\ err = None /\ MayWrite
    /\ \/ \E kind \in Failures : err' = NewError(kind)
       \/ \E status \in HTTPStatus : err' = NewAPIError(status)
    /\ origin' = [error |-> err', hidden |-> FALSE]
    /\ layers' = 0
    /\ UNCHANGED <<now, conditions, errors, calls, log>>

(* Starting over. *)
Wrap_Mutant(e, code, component) == NewErrorBuilder(code, component)

(* Wrap: only an error that is a detailed one itself hands on its context  *)
(* and its severity.                                                       *)
Wrap(e, code, component) ==
    LET new == NewErrorBuilder(code, component) IN
    IF e.detailed THEN With(new, e.keys, e.severity) ELSE new

(* WrapWithContext, or Wrap and AddNamespacedNameContext. *)
WrapError ==
    /\ err # None /\ layers < MaxLayers
    /\ \E code \in Codes, keys \in {{}, {"name", "namespace"}} :
        LET e == Wrap(err, code, "Controller") IN err' = With(e, keys, e.severity)
    /\ layers' = layers + 1
    /\ UNCHANGED <<now, conditions, errors, origin, calls, log>>

(* fmt.Errorf("...: %w"), as ValidateTailscaleService does. *)
Hide ==
    /\ err # None /\ layers < MaxLayers
    /\ err' = [detailed |-> FALSE, code |-> Unset, component |-> Unset, severity |-> Unset,
               keys |-> {}]
    /\ layers' = layers + 1
    /\ origin' = [origin EXCEPT !.hidden = TRUE]
    /\ UNCHANGED <<now, conditions, errors, calls, log>>

(***************************************************************************)
(* Recording them                                                          *)
(***************************************************************************)
Trimmed(list) == IF Len(list) > MaxErrors THEN SubSeq(list, 1, MaxErrors) ELSE list

(* AddError: the severity is Medium unless it is given. *)
AddError(e) ==
    LET severe == IF e.severity = Unset THEN [e EXCEPT !.severity = "Medium"] ELSE e
    IN  errors' = Trimmed(<<severe>> \o errors)

Recorded(by) ==
    /\ log' = Append(log, [error |-> origin.error, hidden |-> origin.hidden, by |-> by])
    /\ err' = None /\ layers' = 0 /\ origin' = None
    /\ UNCHANGED <<now, conditions, calls>>

(* AddError with what Build returns. *)
Record ==
    /\ err # None /\ err.detailed /\ MayWrite
    /\ AddError(err)
    /\ Recorded("AddError")

(* recordError of the TailscaleTailnet controller takes nothing but the    *)
(* message over.                                                           *)
RecordError ==
    /\ err # None /\ MayWrite
    /\ AddError(With(NewErrorBuilder("Reconciliation", "controller"),
                     {"tailnet", "namespace"}, "High"))
    /\ Recorded("recordError")

HasCriticalErrors == \E i \in DOMAIN errors : errors[i].severity = "Critical"

(* GetErrorSummary, of the components and severities that have errors. *)
ErrorSummary ==
    [p \in {<<errors[i].component, errors[i].severity>> : i \in DOMAIN errors} |->
        Cardinality({i \in DOMAIN errors : <<errors[i].component, errors[i].severity>> = p})]

Next == Tick \/ Set \/ Fail \/ WrapError \/ Hide \/ Record \/ RecordError

Spec == Init /\ [][Next]_vars

(***************************************************************************)
(* Properties                                                              *)
(***************************************************************************)
Same(a, b) == a.status = b.status /\ a.reason = b.reason

(* Since call i, and not since an earlier one, its type is what it is now. *)
Began(i) ==
    LET OfType == {j \in DOMAIN calls : calls[j].type = calls[i].type} IN
    /\ \A j \in OfType : j > i => Same(calls[j], calls[i])
    /\ \A j \in OfType : j < i /\ Same(calls[j], calls[i]) =>
          \E m \in OfType : j < m /\ m < i /\ ~Same(calls[m], calls[i])

Told == {calls[i].type : i \in DOMAIN calls}

(* The conditions tell the latest of each type and since when it is so:    *)
(* whatever was set before, a type has one condition, with the status and  *)
(* the reason set last and the time they were first set without a change   *)
(* in between; and the summary counts every type that was set once.        *)
ConditionsTellTheLatest ==
    /\ \A t \in Told :
          \E i \in DOMAIN calls :
              calls[i].type = t /\ Began(i) /\ GetCondition(t) = calls[i]
    /\ Summary.holds = {t \in Told : GetCondition(t).status = "True"}
    /\ Summary.total = Cardinality(Told)
    /\ Summary.error + Summary.unknown + Cardinality(Summary.holds) = Summary.total
    /\ \A t \in Told : GetCondition(t).time <= Summary.last

Origin(j) == log[Len(log) + 1 - j]
Kept(o)   == o.by = "AddError" /\ ~o.hidden

(* The recent errors are those recorded last, the newest first, and an     *)
(* error keeps its severity and its context through any number of          *)
(* wrappers, unless a plain error hid it or recordError recorded it.       *)
NewestFirst ==
    /\ Len(errors) = IF Len(log) < MaxErrors THEN Len(log) ELSE MaxErrors
    /\ \A j \in DOMAIN errors :
          /\ errors[j].severity = IF Kept(Origin(j)) THEN Origin(j).error.severity
                                  ELSE IF Origin(j).by = "AddError" THEN "Medium" ELSE "High"
          /\ Kept(Origin(j)) => Origin(j).error.keys \subseteq errors[j].keys

(* The recent errors are the newest ones, so that there are critical ones  *)
(* exactly when one of them started as an authentication error and was     *)
(* neither hidden nor recorded by recordError, and the summary counts each *)
(* of them once.                                                           *)
RecentErrorsTellTheFailures ==
    /\ NewestFirst
    /\ HasCriticalErrors <=>
          \E j \in DOMAIN errors : Kept(Origin(j)) /\ Origin(j).error.code = "Authentication"
    /\ FoldFunction(+, 0, ErrorSummary) = Len(errors)

(***************************************************************************)
(* The inductive invariant                                                 *)
(***************************************************************************)
Conditions == [type : Types, status : Statuses, reason : Reasons, time : Nat]
ErrorCodes ==
    Codes \cup {"Authentication", "ResourceNotFound", "RateLimit", "Timeout", "APIConnection",
               "Validation", "Dependency", "Configuration", "ServiceDiscovery", "Reconciliation"}
Components ==
    {"TailscaleAPI", "Controller", "controller", "Validation", "ServiceDiscovery"}
Keys == {"field", "value", "dependent_resource", "required_resource", "operation", "timeout",
         "config_field", "service_name", "tailnet", "resource_name", "endpoint", "name",
         "namespace"}
DetailedErrors == [detailed : BOOLEAN, code : ErrorCodes \cup {Unset},
                   component : Components \cup {Unset},
                   severity : Severities \cup {Unset}, keys : SUBSET Keys]

(* What the constructors make: critical is what cannot authenticate. *)
Failed == {e \in DetailedErrors :
              e.severity \in Severities /\ (e.severity = "Critical" <=> e.code = "Authentication")}

TypeOK ==
    /\ now \in Nat /\ layers \in Nat
    /\ conditions \in Seq(Conditions) /\ calls \in Seq(Conditions)
    /\ errors \in Seq(DetailedErrors)
    /\ log \in Seq([error : Failed, hidden : BOOLEAN, by : {"AddError", "recordError"}])

(* Each condition is the call with which its type began to be what it is,  *)
(* and there is one for each type.                                         *)
OnePerType ==
    /\ \A m, n \in DOMAIN conditions : conditions[m].type = conditions[n].type => m = n
    /\ Told = {conditions[n].type : n \in DOMAIN conditions}
    /\ \A n \in DOMAIN conditions :
          /\ conditions[n].time <= now
          /\ \E i \in DOMAIN calls : calls[i] = conditions[n] /\ Began(i)

(* On its way up an error keeps its severity and its context until a plain *)
(* error hides it, after which it has the severity of the builder.         *)
ErrorOnItsWay ==
    err # None =>
        /\ err \in DetailedErrors /\ origin \in [error : Failed, hidden : BOOLEAN]
        /\ ~origin.hidden =>
              /\ err.detailed /\ err.severity = origin.error.severity
              /\ origin.error.keys \subseteq err.keys
        /\ origin.hidden /\ err.detailed => err.severity = "Medium"

IInv == TypeOK /\ OnePerType /\ ErrorOnItsWay /\ NewestFirst
=============================================================================
