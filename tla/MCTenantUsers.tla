---------------------------- MODULE MCTenantUsers ----------------------------
(* Small instances of TenantUsers for TLC. *)
EXTENDS TenantUsers, TLC

CONSTANTS b1, b2, ann, bob

TwoBrowsers == {b1, b2}
Browsers == Permutations(TwoBrowsers)
TwoUsers == {ann, bob}

(* Nobody is signed in, and only ann may; or both are, in either browser,  *)
(* ann as an administrator of one kind or the other.  Who works alone has  *)
(* yet to open the Users screen.                                           *)
SigningInOnly ==
    [in |-> <<>>, role |-> [u \in TwoUsers |-> IF u = ann THEN "admin" ELSE "user"],
     given |-> {"user", "admin"}, open |-> {}, logins |-> 2, requests |-> 3, turns |-> 2, edits |-> 0]

Working(sessions, loaded, role, callbacks, failures, changes) ==
    [in |-> sessions, role |-> [u \in TwoUsers |-> IF u = ann THEN role ELSE "admin"],
     given |-> {"none", "super"}, open |-> loaded, logins |-> Len(sessions), requests |-> callbacks,
     turns |-> failures, edits |-> changes]

Of(b, u) == [browser |-> b, user |-> u]

Situations == {SigningInOnly} \cup
    UNION {
       {Working(<<Of(b, ann), Of(c, bob)>>, TwoBrowsers, "super", 0, 0, 2),
        Working(<<Of(b, ann)>>, {}, "admin", 1, 0, 2),
        Working(<<Of(b, ann)>>, {}, "admin", 0, 1, 2)}
    : <<b, c>> \in {<<b1, b2>>, <<b2, b1>>}}
=============================================================================
