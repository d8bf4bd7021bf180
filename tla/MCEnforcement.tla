--------------------------- MODULE MCEnforcement ---------------------------
(* Small instances of Enforcement.  a, b, c and x are code points; a and b  *)
(* begin names, and 1 may follow.                                           *)
EXTENDS Enforcement

CONSTANTS p, q, own, shared, adm, plain, odd

a == 97
b == 98
x == 120
One == 49
Minus == 45

Letters == {a, b, x}
LettersAndDigits == Letters \cup {One}

GatewayHosts == (p :> {own, shared}) @@ (q :> {shared})

\* The path a."b.a", the claims it finds x, nothing, and something else in.
Path == <<a, Dot, Quote, b, Dot, a, Quote>>
Claims(at) == Map(<<a>> :> Map(<<b, Dot, a>> :> at))
UserTokens ==
    LET both(claims) == [access |-> claims, id |-> Map(<<x>> :> Scalar(<<b>>))]
    IN  (adm :> both(Claims(List(<<Scalar(<<b>>), Scalar(<<x>>)>>))))
        @@ (plain :> both(Map(Empty)))
        @@ (odd :> both(Claims(List(<<Map(Empty)>>))))

Asked ==
    {[vhost |-> own, route |-> "r", user |-> u] : u \in {adm, plain, odd}}
    \cup {[vhost |-> h, route |-> "s", user |-> plain] : h \in {own, shared}}
    \cup {[vhost |-> shared, route |-> "r", user |-> adm]}

\* Roles are required with the prefix of their mapping.
Admin == <<a, x>>
RouteFor(n, roles) == [name |-> n, off |-> FALSE, roles |-> roles, headers |-> <<>>]
Off(n) == [RouteFor(n, {}) EXCEPT !.off = TRUE]
Told(n) == [RouteFor(n, {}) EXCEPT !.headers =
              <<[name |-> "h", value |-> "user", roles |-> {}],
                [name |-> "h", value |-> "admin", roles |-> {Admin}]>>]

Anyone == <<>>
AdminOnly == <<RouteFor(NoName, {Admin})>>
AdminRoute == <<RouteFor("r", {Admin})>>
OpenRoute == <<RouteFor(NoName, {Admin}), Off("r")>>
OnlyRoute == <<Off(NoName), Told("r")>>
Twice == <<RouteFor("r", {Admin}), Told("r")>>

Mapping(path) == <<[from |-> "", prefix |-> <<a>>, path |-> path],
                   [from |-> "idtoken", prefix |-> <<b>>, path |-> <<x>>]>>
World(routesP, routesQ, path) ==
    [pols |-> (p :> routesP) @@ (q :> routesQ), rms |-> Mapping(path)]

\* Every short path, of a provider that no policy names.
Symbols == <<a, Dot, Quote, One, Minus>>
PathsOf(n, k) == [m \in 1..(k^n) |-> [i \in 1..n |-> Symbols[1 + ((m \div k^(i - 1)) % k)]]]
ShortPaths ==
    PathsOf(0, 5) \o PathsOf(1, 5) \o PathsOf(2, 5) \o PathsOf(3, 5) \o PathsOf(4, 5) \o PathsOf(5, 4)
Unused(paths) ==
    [pols |-> Empty, rms |-> [i \in DOMAIN paths |-> [from |-> "", prefix |-> <<>>, path |-> paths[i]]]]

AllWorlds ==
    ("admin" :> World(AdminOnly, Anyone, Path))
    @@ ("adminRoute" :> World(AdminRoute, OpenRoute, Path))
    @@ ("twice" :> World(Twice, OnlyRoute, Path))
    @@ ("withoutQ" :> [World(AdminRoute, Anyone, Path) EXCEPT !.pols = p :> @[p]])
    @@ ("panic" :> World(AdminRoute, Anyone, Append(Path, Dot)))
    @@ ("nothing" :> Unused(<<>>))
    @@ ("paths" :> Unused(ShortPaths))

\* A user changes the routes of p, deletes q, or breaks the path.
AllEdits ==
    {<<"admin", "adminRoute">>, <<"twice", "withoutQ">>, <<"admin", "panic">>,
     <<"nothing", "paths">>}
=============================================================================
