------------------------------- MODULE MCNtfy -------------------------------
(* TLC instance of Ntfy: configuration files that exercise the parser.     *)
EXTENDS Ntfy

Entry(enabled, notifyAfter) ==
    Ok([unknown |-> FALSE, enabled |-> enabled, notifyAfter |-> notifyAfter])
Backend == Ok([unknown |-> FALSE, topic |-> "ok", optional |-> "absent"])
Events(idle, error, asked) ==
    Ok([unknown |-> FALSE,
        of |-> [e \in NOTIFICATION_EVENTS |->
                  CASE e = "session.idle" -> idle
                    [] e = "session.error" -> error
                    [] e = "permission.asked" -> asked]])
Object(enabled, events, backend) ==
    Ok([object |-> TRUE, unresolved |-> FALSE, unknown |-> FALSE,
        enabled |-> enabled, events |-> events, backend |-> backend])

Seg(n, unit) == [n |-> n, unit |-> unit]
ThreeSeconds == Entry(Absent, Ok(<<Seg(30000, "s")>>))

\* No file; idles delayed, errors at once, permissions off; an unreadable
\* duration; a misspelt key; a disabled plugin without, and with, a backend
\* that lacks its topic.
Files ==
    {Absent,
     Object(Absent, Events(ThreeSeconds, Absent, Entry(Ok(FALSE), Absent)), Backend),
     Object(Absent, Events(Entry(Absent, Ok(<<>>)), Absent, Absent), Backend),
     Object(Absent, Events(Ok([unknown |-> TRUE, enabled |-> Absent,
                               notifyAfter |-> Absent]), Absent, Absent), Backend),
     Object(Ok(FALSE), Absent, Absent),
     Object(Ok(FALSE), Absent,
            Ok([unknown |-> FALSE, topic |-> "absent", optional |-> "absent"]))}
=============================================================================
