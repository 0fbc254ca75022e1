----------------------------- MODULE NtfyConfig -----------------------------
(***************************************************************************)
(* The configuration of the ntfy plugin (plugins/ntfy/src/config.ts): what *)
(* parsePluginConfig makes of a configuration file.  A JSON field is       *)
(* absent, malformed (a wrong type, an empty string, a value outside the   *)
(* accepted ones) or carries a value; an object also records whether it    *)
(* holds a key the parser does not know.  A parser returns Bad where the   *)
(* code throws.  Text that no decision depends on (topic, server, token,   *)
(* icon, templates) is present, absent or malformed and nothing more.      *)
(***************************************************************************)
EXTENDS Integers, Sequences

NOTIFICATION_EVENTS == {"session.idle", "session.error", "permission.asked"}

Absent == [is |-> "absent"]
Bad == [is |-> "bad"]
Ok(v) == [is |-> "ok", v |-> v]

IsBad(f) == f.is = "bad"
IsAbsent(f) == f.is = "absent"

\* A field whose value, if it has one, is in S; the objects of a file.
Field(S) == {Absent, Bad} \cup [is : {"ok"}, v : S]
Segment == [n : Nat, unit : {"h", "m", "s"}]
EventObject ==
    [unknown : BOOLEAN, enabled : Field(BOOLEAN), notifyAfter : Field(Seq(Segment))]
EventsObject ==
    [unknown : BOOLEAN, of : [NOTIFICATION_EVENTS -> Field(EventObject)]]
BackendObject ==
    [unknown : BOOLEAN, topic : {"ok", "absent", "bad"},
     optional : {"ok", "absent", "bad"}]
ConfigObject ==
    [object : BOOLEAN, unresolved : BOOLEAN, unknown : BOOLEAN,
     enabled : Field(BOOLEAN), events : Field(EventsObject),
     backend : Field(BackendObject)]

-----------------------------------------------------------------------------
Seconds == [h |-> 3600, m |-> 60, s |-> 1]

\* parseDuration: the segments of a shorthand such as "1h30m", each a number
\* in ten-thousandths and a unit, added up and rounded to milliseconds.  A
\* string without a segment does not match.
parseDuration(segments) ==
    LET total[i \in 0..Len(segments)] ==
            IF i = 0 THEN 0
            ELSE total[i - 1] + segments[i].n * Seconds[segments[i].unit]
    IN IF segments = <<>> THEN Bad ELSE Ok((total[Len(segments)] + 5) \div 10)

parseRequiredDurationMs(f, default) ==
    IF IsAbsent(f) THEN Ok(default)
    ELSE IF IsBad(f) THEN Bad ELSE parseDuration(f.v)

defaultEvents ==
    [e \in NOTIFICATION_EVENTS |-> [enabled |-> TRUE, notifyAfterMs |-> 0]]

\* Mutant: an entry the parser cannot use falls back to the defaults.
parseEventConfigLenient(f, default) ==
    LET ms == parseRequiredDurationMs(f.v.notifyAfter, default.notifyAfterMs)
    IN IF f.is # "ok" \/ f.v.unknown \/ IsBad(f.v.enabled) \/ IsBad(ms)
       THEN Ok(default)
       ELSE Ok([enabled |-> IF IsAbsent(f.v.enabled) THEN default.enabled
                                                     ELSE f.v.enabled.v,
                notifyAfterMs |-> ms.v])

parseEventConfig(f, default) ==
    IF IsAbsent(f) THEN Ok(default)
    ELSE IF IsBad(f) THEN Bad
    ELSE LET ms == parseRequiredDurationMs(f.v.notifyAfter, default.notifyAfterMs)
         IN IF f.v.unknown \/ IsBad(f.v.enabled) \/ IsBad(ms) THEN Bad
            ELSE Ok([enabled |-> IF IsAbsent(f.v.enabled) THEN default.enabled
                                                          ELSE f.v.enabled.v,
                     notifyAfterMs |-> ms.v])

\* The topic is required; the optional fields (templates included) are not,
\* but what is there must be well formed.
parseBackendConfig(f) ==
    IF \/ f.is # "ok"
       \/ f.v.unknown
       \/ f.v.topic # "ok"
       \/ f.v.optional = "bad"
    THEN Bad ELSE Ok(f.v.topic)

\* The map of event configurations: unknown event names are refused.
parseEvents(f) ==
    IF IsAbsent(f) THEN Ok(defaultEvents)
    ELSE IF IsBad(f) \/ f.v.unknown THEN Bad
    ELSE LET parsed == [e \in NOTIFICATION_EVENTS |->
                            parseEventConfig(f.v.of[e], defaultEvents[e])]
         IN IF \E e \in NOTIFICATION_EVENTS : IsBad(parsed[e]) THEN Bad
            ELSE Ok([e \in NOTIFICATION_EVENTS |-> parsed[e].v])

\* parsePluginConfig: a disabled configuration may leave the backend out.
parsePluginConfig(c) ==
    LET enabled == IsAbsent(c.enabled) \/ c.enabled = Ok(TRUE)
        events == parseEvents(c.events)
    IN IF \/ ~c.object \/ c.unresolved \/ c.unknown
          \/ IsBad(c.enabled) \/ IsBad(events)
          \/ /\ enabled \/ ~IsAbsent(c.backend)
             /\ IsBad(parseBackendConfig(c.backend))
       THEN Bad ELSE Ok([enabled |-> enabled, events |-> events.v])

\* loadConfig and its caller makeNtfyPlugin: no file turns the plugin off
\* quietly, any other trouble is thrown at opencode.
loadConfig(file) ==
    IF file = Absent THEN Absent
    ELSE IF IsBad(file) THEN Bad ELSE parsePluginConfig(file.v)
=============================================================================
