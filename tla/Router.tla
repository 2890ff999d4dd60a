------------------------------- MODULE Router --------------------------------
(***************************************************************************)
(* The routes (include/routing.h): a trie of their texts, in which the     *)
(* place of a parameter is a branch of its own, merged by validate() into  *)
(* one with longer fragments, and the search for the rule of a url.        *)
(*                                                                         *)
(* A trie is a sequence of nodes, the head first.  A branch that is 0 is   *)
(* none.  Rules are numbered in the order in which they are added, from 2: *)
(* 0 is none and 1 the redirection to the url with a slash.  The program   *)
(* has no rule with a <float>, whose search is strtod(), left out.         *)
(***************************************************************************)
EXTENDS Text

CONSTANT MaxInt     \* LLONG_MAX: strtoll() refuses larger numbers

ParamTypes == {"int", "uint", "string", "path"}

Node     == [rule |-> 0, params |-> [t \in ParamTypes |-> 0], children |-> <<>>]
EmptyTrie == <<Node>>
Redirect == 1

-----------------------------------------------------------------------------
(* add().                                                                  *)

\* The names in a rule.
ParamTraits == [int |-> {"<int>"}, uint |-> {"<uint>"}, string |-> {"<str>", "<string>"},
                path |-> {"<path>"}]

\* The parameter that stands in a rule at i, with its name, as a set.
ParamAt(url, i) ==
    {x \in {<<t, name>> : t \in ParamTypes, name \in UNION {ParamTraits[u] : u \in ParamTypes}} :
        x[2] \in ParamTraits[x[1]] /\ At(url, i, x[2])}

\* The trie with the branch from a node, and the node it leads to: the one that is
\* there, or a new one.
ParamBranch(trie, idx, t) ==
    IF trie[idx].params[t] # 0 THEN <<trie, trie[idx].params[t]>>
    ELSE <<Append([trie EXCEPT ![idx].params[t] = Len(trie) + 1], Node), Len(trie) + 1>>

With(children, piece, idx) ==
    [x \in DOMAIN children \cup {piece} |-> IF x = piece THEN idx ELSE children[x]]

ChildBranch(trie, idx, piece) ==
    IF piece \in DOMAIN trie[idx].children THEN <<trie, trie[idx].children[piece]>>
    ELSE <<Append([trie EXCEPT ![idx].children = With(@, piece, Len(trie) + 1)], Node),
           Len(trie) + 1>>

\* What is left of a rule from i on goes below a node.  A node that has a rule is
\* not given another: add() throws.
RECURSIVE AddFrom(_, _, _, _, _)
AddFrom(trie, idx, url, i, rule) ==
    IF i > Len(url)
      THEN IF trie[idx].rule # 0 THEN trie ELSE [trie EXCEPT ![idx].rule = rule]
      ELSE IF ParamAt(url, i) # {}
        THEN LET p == CHOOSE x \in ParamAt(url, i) : TRUE
                 b == ParamBranch(trie, idx, p[1])
             IN AddFrom(b[1], b[2], url, i + Len(p[2]), rule)
        ELSE LET b == ChildBranch(trie, idx, Ch(url, i))
             IN AddFrom(b[1], b[2], url, i + 1, rule)

\* internal_add_rule_object(): a rule with a slash at its end is found without it.
AddRule(trie, url, rule) ==
    LET added == AddFrom(trie, 1, url, 1, rule)
    IN IF Len(url) > 1 /\ Ch(url, Len(url)) = "/"
         THEN AddFrom(added, 1, Cut(url, 1, Len(url) - 1), 1, Redirect)
         ELSE added

-----------------------------------------------------------------------------
(* validate().                                                             *)

IsSimpleNode(node) == node.rule = 0 /\ \A t \in ParamTypes : node.params[t] = 0

Kids(node) == {node.children[x] : x \in DOMAIN node.children}

\* The branches of the children, each with the fragment that leads to the child.
Merged(trie, node) ==
    LET pairs == {<<x, y>> \in UNION {{x} \X DOMAIN trie[node.children[x]].children :
                                           x \in DOMAIN node.children} : TRUE}
    IN [f \in {p[1] \o p[2] : p \in pairs} |->
           LET p == CHOOSE q \in pairs : q[1] \o q[2] = f
           IN trie[node.children[p[1]]].children[p[2]]]

\* A mutant that merges past children which have a rule or a parameter.
MayMergeMutant(trie, idx) == \E k \in Kids(trie[idx]) : IsSimpleNode(trie[k])
MayMerge(trie, idx)       == \A k \in Kids(trie[idx]) : IsSimpleNode(trie[k])

\* optimizeNode(), of one node after the other.
RECURSIVE OptimizeNode(_, _), OptimizeNodes(_, _)
OptimizeNodes(trie, todo) ==
    IF todo = {} THEN trie
    ELSE LET idx == CHOOSE k \in todo : TRUE
         IN OptimizeNodes(OptimizeNode(trie, idx), todo \ {idx})
OptimizeNode(trie, idx) ==
    LET below == OptimizeNodes(trie, {trie[idx].params[t] : t \in ParamTypes} \ {0})
        node  == below[idx]
    IN IF node.children = <<>> THEN below
       ELSE IF MayMerge(below, idx)
         THEN OptimizeNode([below EXCEPT ![idx].children = Merged(below, node)], idx)
         ELSE OptimizeNodes(below, Kids(node))

Validate(trie) == OptimizeNode(trie, 1)

-----------------------------------------------------------------------------
(* find().                                                                 *)

NoParams == [ints |-> <<>>, uints |-> <<>>, strings |-> <<>>]

\* strtoll() and strtoull() from pos: where the number ends (pos if there is none
\* or it is too large) and the number.
Digit(url, i) == Ch(url, i) \in Nums
NumberRead(pos, from, end, value, negative) ==
    IF end = from \/ value > MaxInt THEN [end |-> pos, value |-> 0]
    ELSE [end |-> end, value |-> IF negative THEN -value ELSE value]
NumberAt(url, pos) ==
    LET from == IF Ch(url, pos) \in {"+", "-"} THEN pos + 1 ELSE pos
        end  == CHOOSE e \in from .. Len(url) + 1 :
                    ~Digit(url, e) /\ \A i \in from .. e - 1 : Digit(url, i)
    IN NumberRead(pos, from, end, ToNumber(Cut(url, from, end - 1)), Ch(url, pos) = "-")

\* The next slash, or the end of the url.
SegmentEnd(url, pos) ==
    CHOOSE e \in pos .. Len(url) + 1 :
        (e = Len(url) + 1 \/ Ch(url, e) = "/") /\ \A i \in pos .. e - 1 : Ch(url, i) # "/"

\* Where a parameter of type t that starts at pos ends, and the parameters with it.
WithNumber(params, type, n) == <<n.end, [params EXCEPT ![type] = Append(@, n.value)]>>
Taken(t, url, pos, params) ==
    CASE t \in {"int", "uint"} ->
           IF Digit(url, pos) \/ Ch(url, pos) = "+" \/ (t = "int" /\ Ch(url, pos) = "-")
             THEN WithNumber(params, IF t = "int" THEN "ints" ELSE "uints", NumberAt(url, pos))
             ELSE <<pos, params>>
      [] OTHER -> LET e == IF t = "string" THEN SegmentEnd(url, pos) ELSE Len(url) + 1
                  IN <<e, [params EXCEPT !.strings = Append(@, Cut(url, pos, e - 1))]>>

\* Every branch that fits is followed, and of the rules found the first one added is
\* taken.
FirstAdded(found) ==
    IF found = {} THEN [rule |-> 0, params |-> NoParams]
    ELSE CHOOSE r \in found : \A s \in found : r.rule <= s.rule
RECURSIVE FindRule(_, _, _, _, _)
FindRule(trie, idx, url, pos, params) ==
    IF pos > Len(url) THEN [rule |-> trie[idx].rule, params |-> params]
    ELSE LET node  == trie[idx]
             taken == {<<t, Taken(t, url, pos, params)>> : t \in {u \in ParamTypes : node.params[u] # 0}}
             texts == {x \in DOMAIN node.children : At(url, pos, x)}
         IN FirstAdded({r \in {FindRule(trie, node.params[s[1]], url, s[2][1], s[2][2]) :
                                   s \in {k \in taken : k[2][1] # pos}}
                              \cup {FindRule(trie, node.children[x], url, pos + Len(x), params) :
                                       x \in texts} : r.rule # 0})

-----------------------------------------------------------------------------
(* The arguments of a handler.  utility.h makes a number of the text of a  *)
(* rule, when the program is compiled: a digit to the base 6 for each      *)
(* parameter, the first one the lowest.  Of that come the types of the     *)
(* arguments, and the call takes them from the parameters of each type.    *)

TagDigits  == [int |-> 1, uint |-> 2, string |-> 4, path |-> 5]
SingleTag  == [d \in {1, 2, 4, 5} |-> CASE d = 1 -> "ints" [] d = 2 -> "uints" [] OTHER -> "strings"]

\* is_int() to is_path(), each by is_equ_n() with the names of its type.
IsEquN(s, i, name) == i + Len(name) - 1 <= Len(s) /\ Cut(s, i, i + Len(name) - 1) = name
TagNames == [int |-> {"<int>"}, uint |-> {"<uint>"}, string |-> {"<str>", "<string>"}, path |-> {"<path>"}]
IsType(s, i, t) == \E name \in TagNames[t] : IsEquN(s, i, name)
FindClosingTag(s, i) == CHOOSE p \in i .. Len(s) : Ch(s, p) = ">" /\ \A q \in i .. p - 1 : Ch(s, q) # ">"

RECURSIVE ParameterTag(_, _), Arguments(_)
ParameterTag(s, i) ==
    CASE i > Len(s) -> 0
      [] i <= Len(s) /\ Ch(s, i) = "<" ->
           6 * ParameterTag(s, FindClosingTag(s, i))
           + TagDigits[CHOOSE t \in ParamTypes : IsType(s, i, t)]
      [] OTHER -> ParameterTag(s, i + 1)
Arguments(tag) == IF tag = 0 THEN <<>> ELSE <<SingleTag[tag % 6]>> \o Arguments(tag \div 6)

\* TaggedRule::operator(): who ends the response.  A handler that can be called with the
\* arguments of its rule, or with the request before them, returns the response, and the
\* rule ends it; one that is given the response as well ends it itself; another does not
\* compile.  A handler is the sequence of the types that it takes.
EndedBy(handler, types) ==
    CASE handler \in {types, <<"request">> \o types} -> "rule"
      [] handler = <<"request", "response">> \o types -> "handler"
      [] OTHER -> "nobody"

\* call<>: an argument is the next one of its type.
CallPairs(types) ==
    [k \in DOMAIN types |-> <<types[k], Cardinality({j \in 1 .. k : types[j] = types[k]})>>]
Passed(pairs, params) == [k \in DOMAIN pairs |-> params[pairs[k][1]][pairs[k][2]]]
Types(rule) == Arguments(ParameterTag(rule, 1))
HandlerArguments(rule, params) == Passed(CallPairs(Types(rule)), params)

-----------------------------------------------------------------------------
(* handle(): what a request is answered with, up to the handler's call.    *)

\* methods_ of a rule is a set of one.  Only rules and redirections are in a trie.  What
\* the router refuses it ends itself.
Refuses(code, location) ==
    [code |-> code, rule |-> 0, arguments |-> <<>>, ends |-> "router", location |-> location]
Calls(rule, url, handler, params) ==
    [code |-> 200, rule |-> rule, location |-> "", ends |-> EndedBy(handler, Types(url)),
     arguments |-> HandlerArguments(url, params)]
Answer(found, rules, handlers, methods, method, url, host) ==
    CASE found.rule = 0 -> Refuses(404, "")
      [] found.rule = Redirect ->
           Refuses(301, (IF host = "" THEN url ELSE "http://" \o host \o url) \o "/")
      [] found.rule > Redirect /\ methods[found.rule - 1] # method -> Refuses(404, "")
      [] OTHER -> Calls(found.rule, rules[found.rule - 1], handlers[found.rule - 1], found.params)
Route(trie, rules, handlers, methods, method, url, host) ==
    Answer(FindRule(trie, 1, url, 1, NoParams), rules, handlers, methods, method, url, host)
=============================================================================
