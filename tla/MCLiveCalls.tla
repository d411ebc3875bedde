---------------------------- MODULE MCLiveCalls -----------------------------
(* Small instances of LiveCalls for TLC. *)
EXTENDS LiveCalls, TLC

CONSTANTS a, b, acme, other, p1, p2, phone, why

TwoCalls == {a, b}
TwoTenants == {acme, other}
Owners == [c \in TwoCalls |-> IF c = a THEN acme ELSE other]
TwoPolls == {p1, p2}
OneDevice == {phone}

Plain(type) == [type |-> type, payload |-> None]
With(type, payload) == [type |-> type, payload |-> payload]
Requested == With("takeover-requested", phone)

(* Every branch of the reducer and of the walk, and a reason.              *)
Events ==
    {Plain(type) : type \in
        {"bootstrapped", "screening-started", "fallback", "takeover-requested", "answered",
         "bridged", "aida-drained", "aida-lost", "takeover-failed", "human-hangup", "hangup",
         "livekit.room_finished"}}
    \cup {With("takeover-failed", why), Requested}
Happenings == [c \in TwoCalls |-> IF c = a THEN {Plain("bridged"), Plain("hangup")} ELSE {}]

NoCommands == [c \in TwoCalls |-> <<>>]
OfA(history) == [c \in TwoCalls |-> IF c = a THEN history ELSE Blank]
ByPhone(standing) ==
    [c \in TwoCalls |-> IF c = a THEN <<Command(None, phone, standing[1], standing[2])>> ELSE <<>>]
Situation(history, cmds, at, in, keys, spent) ==
    [record |-> OfA(history), commands |-> cmds, page |-> at, session |-> in,
     minted |-> keys, turns |-> spent]

CommandsFor(history) ==
    IF \E n \in DOMAIN history : history[n] = Requested
    THEN {ByPhone(standing) : standing \in Standing \ {<<"failed", FALSE>>}} ELSE {NoCommands}

(* The page of a call with any record; nothing else happens.               *)
Reading == UNION {{Situation(history, cmds, a, acme, MaxKeys, MaxTurns) :
                        cmds \in CommandsFor(history)} : history \in Record}

(* Either screen of any session, with one key and one turn left.           *)
Watching == UNION {{Situation(history, cmds, at, in, MaxKeys - 1, MaxTurns - 1) :
                        cmds \in CommandsFor(history), at \in TwoCalls \cup {"live"},
                        in \in TwoTenants \cup {"all"}} :
                     history \in {Blank, [Blank EXCEPT ![1] = Requested],
                                  [Blank EXCEPT ![2] = Plain("hangup")],
                                  [Blank EXCEPT ![1] = Plain("hangup"), ![2] = Plain("aida-drained")]}}

(* LIVE before a takeover, with all keys and turns left.                   *)
TakingOver == {Situation(Blank, NoCommands, "live", acme, 0, 0)}

Situations == Reading \cup Watching \cup TakingOver
=============================================================================
