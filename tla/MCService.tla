----------------------------- MODULE MCService -----------------------------
(* An instance of Service for TLC: a release and a development build, the  *)
(* configurations that differ in what they grant, and the edges of what is *)
(* accepted.                                                               *)
EXTENDS Service

Release == [compiled |-> TRUE, seccompLog |-> FALSE, debug |-> FALSE, suspend |-> FALSE,
            fake |-> FALSE]

Debug == [Release EXCEPT !.seccompLog = TRUE, !.debug = TRUE, !.suspend = TRUE]

Started(file, build) == [file |-> file, build |-> build, root |-> TRUE, inherited |-> {}]

Protecting == [DataProtection EXCEPT !.suspend = TRUE]

Development == [enforced |-> FALSE, suspend |-> TRUE, information |-> FALSE,
                idle |-> 1, max |-> 59]

(* Timeouts at the edges of what is accepted. The daemon is not started as *)
(* root, so that it gets past the configuration and refuses to serve.      *)
Timed(idle, max, op) ==
    [Started([idle |-> idle, max |-> max, op |-> op], Release) EXCEPT !.root = FALSE]

AtTheEdges == {Timed(0, 1, {}), Timed(1, 0, {}), Timed(1, 1, {}), Timed(30, 59, {60}),
               Timed(1, 1, {0}), Timed(86400, 86400, {86400}), Timed(1, 86401, {}),
               Started([quotas |-> [RateDefaults.quotas EXCEPT !.get = 0]], Release),
               Started([absolute |-> FALSE], Release), Started([unknown |-> TRUE], Release)}

MCProfiles == AtTheEdges \cup {
    [Started(Protecting, Release) EXCEPT !.inherited = {"OTHER"}],
    Started(<<>>, [Release EXCEPT !.seccompLog = TRUE]),
    Started(Development, [Debug EXCEPT !.fake = TRUE]),
    [Started(<<>>, Release) EXCEPT !.root = FALSE],
    Started(<<>>, [Release EXCEPT !.compiled = FALSE]),
    Started(<<>>, Debug)}

=============================================================================
