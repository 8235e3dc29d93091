------------------------------- MODULE MCAuth -------------------------------
(* Two clients behind one address; one family of requests per mix. *)
EXTENDS Auth, TLC

CONSTANTS c1, c2
MCClients == {c1, c2}
MCPeer == [c \in MCClients |-> "p"]
Symmetry == Permutations(MCClients)

Old == [life |-> 0, ver |-> 0]
Tables ==
    [users |-> (1 :> [user |-> "bob", hash |-> "pw", enabled |-> TRUE]),
     sessions |-> (2 :> [user |-> "bob", expires |-> 2, seen |-> 2, remember |-> TRUE, stamp |-> Old]),
     mfa |-> <<>>, codes |-> <<>>, challenges |-> <<>>, creds |-> <<>>, tokens |-> <<>>, seq |-> 9]
Enrolled ==
    [Tables EXCEPT !.mfa = ("bob" :> [user |-> "bob", secret |-> 3, enabled |-> TRUE, step |-> 1, stamp |-> Old]),
                   !.codes = (4 :> [user |-> "bob", used |-> FALSE, stamp |-> Old]),
                   !.challenges = (5 :> [user |-> "bob", kind |-> "Totp", state |-> <<>>, expires |-> 2,
                                         remember |-> FALSE, stamp |-> Old])]
Keyed == [Enrolled EXCEPT !.creds = (6 :> [user |-> "bob", count |-> 0, stamp |-> Old])]
\* A passkey, two logins at their second factor, and a secret that is not confirmed yet.
Enrolling ==
    [Keyed EXCEPT !.mfa["bob"].enabled = FALSE, !.mfa["bob"].step = 0,
                  !.challenges = @ @@ (7 :> @[5])]
AdminIn ==
    [Tables EXCEPT !.sessions = @ @@ (7 :> [user |-> "root", expires |-> 2, seen |-> 2, remember |-> FALSE,
                                           stamp |-> Old]),
                   !.tokens = (8 :> [name |-> "bob", hash |-> "key", used |-> FALSE])]

Mix(tables, ops, each, nfaults, until) ==
    [db |-> tables, password |-> "pw", ops |-> ops, each |-> each, faults |-> nfaults, until |-> until]

MCMixes ==
    <<Mix(Enrolled, {"login", "verify", "disable_mfa"}, 3, 0, 3),
      Mix(Keyed, {"verify", "passkey"}, 4, 0, 3),
      Mix(Keyed, {"discover", "register", "delete_passkey"}, 5, 0, 3),
      Mix(Tables, {"login", "setup_totp", "confirm_totp"}, 4, 0, 2),
      Mix(Tables, {"setup_totp", "confirm_totp", "logout", "cleanup"}, 4, 1, 3),
      Mix(Enrolling, {"setup_totp", "confirm_totp", "verify"}, 4, 0, 2),
      Mix(Keyed, {"login", "delete_user", "create_user", "register"}, 4, 0, 2),
      Mix(AdminIn, {"login", "change"}, 3, 1, 2),
      Mix(AdminIn, {"pihole", "tokens"}, 4, 1, 2),
      [Mix(Tables, {"setup", "pihole", "create_user"}, 4, 1, 2) EXCEPT !.password = ""]>>

=============================================================================
