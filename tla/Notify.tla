------------------------------- MODULE Notify -------------------------------
(***************************************************************************)
(* notify/send and notify/targets (core/notify, sinks).  A request names   *)
(* its targets and carries, for each, a patch of its fields.  All of it is *)
(* validated, once per target and once without a patch, before the first   *)
(* delivery; then every target is attempted, whatever became of the ones   *)
(* before it.                                                              *)
(*                                                                         *)
(* A field's value is known by what validation makes of it:                *)
(*   "long", "control", "newline", "blank"    strings                      *)
(*   "infinite", "outside", "zero"            numbers                      *)
(*   "on", "off"                              flags                        *)
(* and by any other name if it is accepted as it is.  "huge" is within the *)
(* limit of a field and over that of a datagram; "instant" is a time that  *)
(* rounds to no millisecond.                                               *)
(***************************************************************************)
EXTENDS Service, Naturals, Sequences, SequencesExt

CONSTANTS
    Bases,      \* the fields a request may have, without its patches
    Patches,    \* the patches it may have for a sink, None among them
    SinkLists,  \* the lists of names it may ask for, None among them
    SinkSets,   \* the sinks build_sinks may have registered, each once, in order
    MaxNames    \* MAX_REQUESTED_SINKS

Sinks == {"wayvr", "freedesktop"}

Numbers == {"timeoutSecs", "volume", "height", "opacity"}
Flags == {"useBase64Icon", "sound", "alwaysShow"}
Fields == Numbers \cup Flags
          \cup {"title", "content", "icon", "sourceApp", "audioPath", "urgency"}

Requests ==
    {[method |-> "send", base |-> b, overrides |-> ps, sinks |-> names] :
        b \in Bases, ps \in [Sinks -> Patches], names \in SinkLists}

ASSUME NotifyOK ==
    /\ \A b \in Bases : DOMAIN b = Fields
    /\ \A p \in Patches \ {None} : DOMAIN p = Fields
    /\ SinkLists \ {None} \subseteq Seq(STRING)
    /\ \A s \in SinkSets : s \in Seq(Sinks) /\ IsInjective(s)
    /\ MaxNames \in Nat
    /\ None \notin Requests \cup {[code |-> c] : c \in {"bad_request", "unavailable"}}

VARIABLES
    sinks,     \* the registered sinks; no call changes them
    request,
    targets,   \* those still to be attempted
    sent,      \* what was handed to a sink's transport, and whether it took it
    notified   \* the answer

notifyVars == <<sinks, request, targets, sent, notified>>

NotifyInit ==
    /\ sinks = <<>> /\ request = None /\ targets = <<>>
    /\ sent = <<>> /\ notified = None

-----------------------------------------------------------------------------
(* Validation *)

Refused(f, v) ==
    \/ v \in {"long", "control", "infinite", "outside"}
    \/ v = "newline" /\ f # "content"
    \/ v = "zero" /\ f = "height"
    \/ v \in {"blank", None} /\ f = "title"

Default(f) ==
    CASE f = "content" -> ""
      [] f = "sourceApp" -> "VRCNext"
      [] f = "volume" -> "0.7"
      [] f = "opacity" -> "1.0"
      [] f = "urgency" -> "normal"
      [] f \in Flags -> "off"
      [] OTHER -> None

\* A blank line, and a time of zero, are the same as none.
Unset(f, v) ==
    v = None \/ (v = "blank" /\ f # "content") \/ (v = "zero" /\ f = "timeoutSecs")

Cleaned(f, v) == IF Unset(f, v) THEN Default(f) ELSE v

Valid(fields) == \A f \in Fields : ~Refused(f, fields[f])

Validated(fields) == [f \in Fields |-> Cleaned(f, fields[f])]

Patched(fields, patch) ==
    [f \in Fields |-> IF patch[f] = None THEN fields[f] ELSE patch[f]]

\* What sink s is to be told, before validation.
VariantFor(q, s) ==
    IF q.overrides[s] = None THEN q.base ELSE Patched(q.base, q.overrides[s])

\* Variant: the base request is validated, the patched ones are not.
AllValidButPatched(q, to) == Valid(q.base)

AllValid(q, to) == Valid(q.base) /\ \A s \in ToSet(to) : Valid(VariantFor(q, s))

-----------------------------------------------------------------------------
(* Targets *)

\* A name is empty or too long if it is "".
NamesOK(names) == Len(names) <= MaxNames /\ "" \notin ToSet(names)

\* Each name where it was first given.
Distinct(names) ==
    LET upTo[n \in 0..Len(names)] ==
            IF n = 0 THEN <<>>
            ELSE IF Contains(upTo[n - 1], names[n]) THEN upTo[n - 1]
                 ELSE Append(upTo[n - 1], names[n])
    IN  upTo[Len(names)]

Select(names, registered) == IF names = None THEN registered ELSE Distinct(names)

Verdict(q, registered) ==
    LET named == q.sinks # None
        to == Select(q.sinks, registered)
    IN  CASE named /\ ~NamesOK(q.sinks) -> "bad_request"
          [] named /\ ~(ToSet(q.sinks) \subseteq ToSet(registered)) -> "bad_request"
          [] to = <<>> -> IF named THEN "bad_request" ELSE "unavailable"
          [] ~AllValid(q, to) -> "bad_request"
          [] OTHER -> "deliver"

-----------------------------------------------------------------------------
(* The sinks' own messages *)

\* XsoMessage: no sound is a volume of zero, and what is unset is zero or empty.
ToWayvr(n) ==
    [f \in Fields \ {"sound", "urgency"} |->
        CASE f = "volume" /\ n["sound"] = "off" -> "zero"
          [] n[f] # None -> n[f]
          [] OTHER -> IF f \in Numbers THEN "zero" ELSE ""]

\* A base64 icon is dropped, and a time under a millisecond is the daemon's own.
ToFreedesktop(n) ==
    [f \in {"title", "content", "timeoutSecs", "icon", "sourceApp", "urgency", "sound"} |->
        CASE f = "icon" /\ (n["useBase64Icon"] = "on" \/ n[f] = None) -> ""
          [] f = "timeoutSecs" /\ n[f] \in {None, "instant"} -> "default"
          [] OTHER -> n[f]]

Encoded(s, n) == IF s = "wayvr" THEN ToWayvr(n) ELSE ToFreedesktop(n)

\* What is over the limit of a datagram is refused before it is sent.
Fits(s, n) == s = "wayvr" => \A f \in Fields : n[f] # "huge"

\* WayvrSink::is_listener_bound: the probes of the port, by IPv6 and by IPv4.
Health(probe6, probe4) ==
    CASE "inUse" \in {probe6, probe4} -> "up"
      [] "free" \in {probe6, probe4} -> "down"
      [] OTHER -> "unknown"

-----------------------------------------------------------------------------
(* NotifyService::call *)

Send(q, registered) ==
    /\ request = None
    /\ request' = q
    /\ sinks' = registered
    /\ sent' = sent
    /\ LET verdict == Verdict(q, registered) IN
       IF verdict = "deliver"
       THEN targets' = Select(q.sinks, registered) /\ notified' = None
       ELSE targets' = <<>> /\ notified' = [code |-> verdict]

Attempt(s, n, ok) ==
    /\ ok => Fits(s, n)
    /\ sent' = Append(sent, [to |-> s, message |-> Encoded(s, n), ok |-> ok])

\* Variant: the first failure ends the delivery.
DeliverUntilFailure(ok) ==
    /\ targets # <<>>
    /\ Attempt(Head(targets), Validated(VariantFor(request, Head(targets))), ok)
    /\ targets' = IF ok THEN Tail(targets) ELSE <<>>
    /\ UNCHANGED <<sinks, request, notified>>

\* The socket or the bus takes the message, or does not.
Deliver(ok) ==
    /\ targets # <<>>
    /\ Attempt(Head(targets), Validated(VariantFor(request, Head(targets))), ok)
    /\ targets' = Tail(targets)
    /\ UNCHANGED <<sinks, request, notified>>

\* Those of outcomes that took it, or did not; in which order they are listed is left out.
Outcomes(outcomes, ok) == {outcomes[i].to : i \in {i \in DOMAIN outcomes : outcomes[i].ok = ok}}

\* The delivery that is next, or under way, is a call on the bus.
OnBus == targets # <<>> /\ Head(targets) = "freedesktop"

Report ==
    /\ request # None /\ targets = <<>> /\ notified = None
    /\ notified' = [code |-> "ok", any |-> \E o \in ToSet(sent) : o.ok,
                    delivered |-> Outcomes(sent, TRUE), failed |-> Outcomes(sent, FALSE)]
    /\ UNCHANGED <<sinks, request, targets, sent>>

\* notify/targets asks each sink how it is.
Targets(registered) ==
    /\ request = None
    /\ \E probe6, probe4 \in {"inUse", "free", "denied"} :
          notified' = [code |-> "ok", health |->
              [s \in ToSet(registered) |-> IF s = "wayvr" THEN Health(probe6, probe4) ELSE "up"]]
    /\ request' = [method |-> "targets"] /\ sinks' = registered
    /\ UNCHANGED <<targets, sent>>

NotifyBegin ==
    \E registered \in SinkSets :
        \/ Targets(registered)
        \/ \E q \in Requests : Send(q, registered)

NotifyStep == (\E ok \in BOOLEAN : Deliver(ok)) \/ Report

NotifyReturn ==
    /\ notified # None
    /\ sinks' = <<>> /\ request' = None /\ targets' = <<>>
    /\ sent' = <<>> /\ notified' = None

-----------------------------------------------------------------------------
(* Properties *)

Sending == request # None /\ request.method = "send"

\* The value a request has for sink s, patched or not, taken field by field.
Wanted(s, f) ==
    LET p == request.overrides[s]
    IN  IF p # None /\ p[f] # None THEN p[f] ELSE request.base[f]

Asked == IF request.sinks = None THEN sinks ELSE request.sinks

\* Where s is named first.
FirstNamed(names, s) ==
    CHOOSE i \in DOMAIN names : names[i] = s /\ \A j \in 1..(i - 1) : names[j] # s

(* Nothing reaches any sink of a request of which any part is invalid: not  *)
(* the base (even when each target patches what is wrong with it), and not  *)
(* the variant of a target that would have come later (proto.rs, resolve).  *)
NothingUnlessAllValid ==
    Sending /\ sent # <<>> =>
        \A f \in Fields :
            /\ ~Refused(f, request.base[f])
            /\ \A s \in ToSet(Asked) : ~Refused(f, Wanted(s, f))

(* Once answered, each sink that was asked for has been attempted once, in  *)
(* the order it was first named, with the request's fields as patched for   *)
(* it and no other, whatever became of the other sinks; and the answer says *)
(* which took it (dispatch.rs, select, dispatch and to_json).               *)
DeliversToEachItsOwn ==
    Sending /\ notified # None /\ notified.code = "ok" =>
        LET to == [i \in DOMAIN sent |-> sent[i].to]
        IN  /\ ToSet(to) = ToSet(Asked)
            /\ \A i, j \in DOMAIN to :
                  i < j => FirstNamed(Asked, to[i]) < FirstNamed(Asked, to[j])
            /\ \A o \in ToSet(sent) :
                  o.message = Encoded(o.to, [f \in Fields |-> Cleaned(f, Wanted(o.to, f))])
            /\ \A s \in ToSet(Asked) :
                  LET ok == \E o \in ToSet(sent) : o.to = s /\ o.ok
                  IN  /\ ok <=> s \in notified.delivered
                      /\ ~ok <=> s \in notified.failed

=============================================================================
