------------------------------ MODULE RolePath ------------------------------
(***************************************************************************)
(* From the claims of a token to roles (package openidprovider, and         *)
(* hasRoles of package auth): the parser of the paths in role mappings, the *)
(* extraction of roles along a path, and what a required role is compared   *)
(* with.  Pure functions; a string is a sequence of code points.            *)
(***************************************************************************)
EXTENDS Integers, Sequences, FiniteSets

CONSTANTS
    IdStart,     \* the code points isIdStart holds of
    IdContinue   \* the code points isIdContinue holds of

Quote == 34
Dollar == 36
Dot == 46
Slash == 47
Backslash == 92
Underscore == 95
Joiners == {8204, 8205}

ASSUME RuneAssumption ==
    IdStart \subseteq IdContinue /\ {Quote, Dot, Backslash} \cap IdContinue = {}

\* A part of the parser returns what it read and where to go on, or fails.
Read(id, next) == [ok |-> TRUE, id |-> id, next |-> next]
Fail == [ok |-> FALSE, id |-> <<>>, next |-> 0]
Prefixed(pre, part) == IF part.ok THEN [part EXCEPT !.id = pre \o @] ELSE part

-----------------------------------------------------------------------------
(* parseRolePath *)

Starts(r) == r \in {Dollar, Underscore} \cup IdStart
Continues(r) == r \in {Dollar, Underscore} \cup Joiners \cup IdContinue

\* Faulty: a digit may come first.
Unquoted_AnyStart(s, i) ==
    LET end == CHOOSE j \in i..(Len(s) + 1) :
                 /\ \A k \in i..(j - 1) : Continues(s[k])
                 /\ j > Len(s) \/ ~Continues(s[j])
    IN  Read(SubSeq(s, i, end - 1), end)

\* The longest identifier from i on; an empty one if none starts there.
Unquoted(s, i) ==
    LET end == CHOOSE j \in (i + 1)..(Len(s) + 1) :
                 /\ \A k \in (i + 1)..(j - 1) : Continues(s[k])
                 /\ j > Len(s) \/ ~Continues(s[j])
    IN  IF Starts(s[i]) THEN Read(SubSeq(s, i, end - 1), end) ELSE Read(<<>>, i)

\* strconv.ParseUint(hex, 16, 16), and string(rune(n)): half of a surrogate
\* pair becomes the replacement character.
HexDigits == (48..57) \cup (65..70) \cup (97..102)
HexValue(r) == CASE r <= 57 -> r - 48 [] r <= 70 -> r - 55 [] OTHER -> r - 87
Codepoint(s, i) ==
    LET v(k) == HexValue(s[i + k])
        n == 4096 * v(0) + 256 * v(1) + 16 * v(2) + v(3)
    IN  IF Len(s) - i + 1 < 4 \/ \E k \in 0..3 : s[i + k] \notin HexDigits THEN Fail
        ELSE Read(<<IF n \in 55296..57343 THEN 65533 ELSE n>>, i + 4)

\* i is the place after the backslash, and the letter of the sequence is taken
\* from the place after that: one character is skipped.
Control(r) == CASE r = 98 -> 8 [] r = 102 -> 12 [] r = 110 -> 10 [] r = 114 -> 13 [] r = 116 -> 9
Escaped(s, i) ==
    LET r == s[i + 1]
    IN  IF Len(s) - i + 1 < 2 THEN Fail
        ELSE CASE r \in {Quote, Backslash, Slash} -> Read(<<r>>, i + 2)
               [] r \in {98, 102, 110, 114, 116} -> Read(<<Control(r)>>, i + 2)
               [] r = 117 -> Codepoint(s, i + 2)
               [] OTHER -> Fail

Quoted(s, i) ==
    LET from[k \in (i + 1)..(Len(s) + 1)] ==
          IF k > Len(s) THEN Fail
          ELSE IF s[k] = Quote THEN Read(<<>>, k + 1)
          ELSE LET part == IF s[k] = Backslash THEN Escaped(s, k + 1) ELSE Read(<<s[k]>>, k + 1)
               IN  IF part.ok THEN Prefixed(part.id, from[part.next]) ELSE Fail
    IN  from[i + 1]

Ids(ids) == [is |-> "ids", ids |-> ids]
ParseError == [is |-> "error", ids |-> <<>>]
ParsePanic == [is |-> "panic", ids |-> <<>>]

\* Where an identifier should begin the first character is looked at without
\* asking whether there is one.
ParseRolePath(s) ==
    LET from[i \in 1..(Len(s) + 1)] ==
          IF i > Len(s) THEN ParsePanic
          ELSE LET part == IF s[i] = Quote THEN Quoted(s, i) ELSE Unquoted(s, i)
                   rest == from[part.next + 1]
               IN  IF part.id = <<>> THEN ParseError
                   ELSE IF part.next > Len(s) THEN Ids(<<part.id>>)
                   ELSE IF s[part.next] # Dot THEN ParseError
                   ELSE IF rest.is = "ids" THEN Ids(<<part.id>> \o rest.ids) ELSE rest
    IN  from[1]

-----------------------------------------------------------------------------
(* The role mappings of a provider, and the roles in a user's tokens *)

\* fromStrToConst
From == [x \in {"", "accesstoken", "idtoken"} |-> IF x = "idtoken" THEN "id" ELSE "access"]

\* The first mapping that cannot be converted decides.
ConvertMappings(rms) ==
    LET path(i) == IF rms[i].from \in DOMAIN From THEN ParseRolePath(rms[i].path) ELSE ParseError
        bad == {i \in DOMAIN rms : path(i).is # "ids"}
        first == CHOOSE i \in bad : \A j \in bad : i <= j
    IN  IF bad = {}
        THEN [is |-> "maps", maps |-> [i \in DOMAIN rms |->
               [from |-> From[rms[i].from], prefix |-> rms[i].prefix, path |-> path(i).ids]]]
        ELSE [is |-> IF path(first).is = "panic" THEN "panic" ELSE "error", maps |-> <<>>]

\* A claim is a map, a list, or a scalar, whose str is what convertValue makes
\* of it.
Scalar(str) == [is |-> "scalar", str |-> str]
List(els) == [is |-> "list", els |-> els]
Map(at) == [is |-> "map", at |-> at]

Roles(rs) == [ok |-> TRUE, roles |-> rs]
BadClaims == [ok |-> FALSE, roles |-> {}]

Convert(obj) ==
    LET els == IF obj.is = "list" THEN obj.els ELSE <<obj>>
    IN  IF \A i \in DOMAIN els : els[i].is = "scalar"
        THEN Roles({els[i].str : i \in DOMAIN els})
        ELSE BadClaims

\* Along the path there must be maps; the last value is converted.
ExtractRoles(path, claims) ==
    LET absent == [is |-> "absent"]
        wrong == [is |-> "wrong"]
        node[i \in 0..Len(path)] ==
          IF i = 0 THEN claims
          ELSE LET obj == node[i - 1]
               IN  CASE obj.is \in {"absent", "wrong"} -> obj
                     [] obj.is \in {"list", "scalar"} -> wrong
                     [] obj.is = "map" -> IF path[i] \in DOMAIN obj.at THEN obj.at[path[i]] ELSE absent
        last == node[Len(path)]
    IN  CASE last.is = "absent" -> Roles({})
          [] last.is = "wrong" -> BadClaims
          [] OTHER -> Convert(last)

\* extractTokenData, of tokens that verify: roles by prefix, unless one mapping
\* fails.
TokenData(maps, tokens) ==
    LET of(m) == ExtractRoles(m.path, tokens[m.from])
        all == {maps[i] : i \in DOMAIN maps}
    IN  IF \A m \in all : of(m).ok
        THEN Roles([p \in {m.prefix : m \in all} |->
                      UNION {of(m).roles : m \in {m \in all : m.prefix = p}}])
        ELSE BadClaims

HasRoles(required, provided) ==
    required \subseteq UNION {{p \o r : r \in provided[p]} : p \in DOMAIN provided}

-----------------------------------------------------------------------------
(* What a path means, as a reference: names separated by dots, each of them *)
(* an identifier or in quotes (and then any text without quotes).           *)

Pieces(s, dots) ==
    LET cuts == dots \cup {0, Len(s) + 1}
        cut(k) == CHOOSE c \in cuts : Cardinality({d \in cuts : d < c}) = k
    IN  [k \in 1..(Cardinality(dots) + 1) |-> SubSeq(s, cut(k - 1) + 1, cut(k) - 1)]

IsBare(p) == p # <<>> /\ Starts(p[1]) /\ \A i \in 2..Len(p) : Continues(p[i])
IsQuoted(p) ==
    /\ Len(p) > 2 /\ p[1] = Quote /\ p[Len(p)] = Quote
    /\ \A i \in 2..(Len(p) - 1) : p[i] # Quote
Name(p) == IF IsQuoted(p) THEN SubSeq(p, 2, Len(p) - 1) ELSE p

Readings(s) ==
    {[k \in DOMAIN ps |-> Name(ps[k])] :
       ps \in {ps \in {Pieces(s, dots) : dots \in SUBSET {i \in DOMAIN s : s[i] = Dot}} :
                 \A k \in DOMAIN ps : IsBare(ps[k]) \/ IsQuoted(ps[k])}}

\* The parser finds the one reading there is, or reports an error, or panics
\* where a name is missing at the end.
ParsesExactly(s) ==
    LET res == ParseRolePath(s)
        cutShort == s = <<>> \/ (s[Len(s)] = Dot /\ Readings(SubSeq(s, 1, Len(s) - 1)) # {})
    IN  /\ Readings(s) = IF res.is = "ids" THEN {res.ids} ELSE {}
        /\ res.is = "panic" <=> cutShort
=============================================================================
