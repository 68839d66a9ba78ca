-------------------------------- MODULE Router --------------------------------
(***************************************************************************)
(* http::Router (src/src/router.cc, router.h): routes are registered in a  *)
(* trie of static parts and parameters, and a request walks down the trie  *)
(* along its path, never going back.                                       *)
(*                                                                         *)
(* A node is named by the edges that lead to it.  All the parameters below *)
(* a node share one edge, and its node has one name: that of the last      *)
(* registration that came through.                                         *)
(***************************************************************************)
EXTENDS Naturals, Sequences, FiniteSets, SequencesExt

CONSTANTS
  Methods,
  Texts,      \* what a part of a path may be
  Names,      \* the names of parameters
  Empty,      \* the part between two slashes
  MaxParts,   \* bound: the parts of a path
  MaxRoutes   \* bound: the calls of registerHandler()

ASSUME RouterAssumption == MaxParts \in Nat /\ MaxRoutes \in Nat /\ Empty \notin Names

Static(text) == [kind |-> "static", text |-> text]
Param(n)     == [kind |-> "param", text |-> n]

Paths    == SeqOf({Static(x) : x \in Texts \cup {Empty}}, MaxParts)
Patterns == SeqOf({Static(x) : x \in Texts \cup {Empty}} \cup {Param(n) : n \in Names}, MaxParts)

NoHandler == 0
ParamChild == Param(Empty)
Edge(part) == IF part.kind = "param" THEN ParamChild ELSE part
Root == <<>>
Nowhere == <<[kind |-> "none", text |-> Empty]>>

VARIABLES
  trie,      \* the nodes: the name of a parameter's node, and a handler per method
  routes     \* the calls of registerHandler() so far; a handler is the number of its call

vars == <<trie, routes>>

NewNode == [name |-> Empty, handlers |-> [m \in Methods |-> NoHandler]]
At(node) == IF node \in DOMAIN trie THEN trie[node] ELSE NewNode

Init ==
  /\ trie = [node \in {Root} |-> NewNode]
  /\ routes = <<>>

(* Parts that are empty are no parts. *)
splitPath(path) ==
  LET kept[k \in 0..Len(path)] ==
        IF k = 0 THEN <<>>
        ELSE IF path[k].text = Empty THEN kept[k - 1] ELSE Append(kept[k - 1], path[k])
  IN kept[Len(path)]

-----------------------------------------------------------------------------
(* Router::registerHandler() *)

NodeOf(parts) == [k \in DOMAIN parts |-> Edge(parts[k])]
Upto(seq, k) == SubSeq(seq, 1, k)

(* Mutant: a parameter keeps the name it got first. *)
RenamedFirst(node, parts) ==
  IF node # Root /\ Last(node) = ParamChild /\ At(node).name = Empty
  THEN parts[Len(node)].text ELSE At(node).name

(* The name a node gets when a route of these parts comes through. *)
Renamed(node, parts) ==
  IF node # Root /\ Last(node) = ParamChild THEN parts[Len(node)].text ELSE At(node).name

(* Mutant: insert_or_assign() instead of try_emplace(). *)
AssignHandler(node, method) == [At(node).handlers EXCEPT ![method] = Len(routes) + 1]

(* try_emplace(): a handler that is there stays. *)
PutHandler(node, method) ==
  [At(node).handlers EXCEPT ![method] = IF @ = NoHandler THEN Len(routes) + 1 ELSE @]

registerHandler(method, path) ==
  LET parts == splitPath(path)
      end == NodeOf(parts)
      passed == {Upto(end, k) : k \in 0..Len(end)}
  IN /\ Len(routes) < MaxRoutes
     /\ trie' = [node \in DOMAIN trie \cup passed |->
                   [name |-> IF node \in passed THEN Renamed(node, parts) ELSE At(node).name,
                    handlers |-> IF node = end THEN PutHandler(node, method)
                                 ELSE At(node).handlers]]
     /\ routes' = Append(routes, [method |-> method, parts |-> parts,
                                  inserted |-> At(end).handlers[method] = NoHandler])

Next == \E method \in Methods, path \in Patterns : registerHandler(method, path)

Spec == Init /\ [][Next]_vars

-----------------------------------------------------------------------------
(* Router::match() *)

(* Mutants: the parameter is preferred; a part without a child is skipped. *)
DownParamFirst(node, part) ==
  IF Append(node, ParamChild) \in DOMAIN trie THEN Append(node, ParamChild)
  ELSE IF Append(node, part) \in DOMAIN trie THEN Append(node, part)
  ELSE Nowhere

DownOrStay(node, part) ==
  IF Append(node, part) \in DOMAIN trie THEN Append(node, part)
  ELSE IF Append(node, ParamChild) \in DOMAIN trie THEN Append(node, ParamChild)
  ELSE node

(* One part further down: the static child, or else the parameter. *)
Down(node, part) ==
  IF Append(node, part) \in DOMAIN trie THEN Append(node, part)
  ELSE IF Append(node, ParamChild) \in DOMAIN trie THEN Append(node, ParamChild)
  ELSE Nowhere

Walk(parts) ==
  LET node[k \in 0..Len(parts)] == IF k = 0 THEN Root ELSE Down(node[k - 1], parts[k])
  IN node[Len(parts)]

(* The handler that answers a request, if one does. *)
Handler(method, path) == At(Walk(splitPath(path))).handlers[method]

(* setParam() on the way down: the parts the walk binds, by the names their
   nodes have; a name that comes twice keeps the later part. *)
Binds(parts, k) == Walk(Upto(parts, k)) # Nowhere /\ Last(Walk(Upto(parts, k))) = ParamChild

BoundTo(parts, n, k) ==
  /\ Binds(parts, k) /\ trie[Walk(Upto(parts, k))].name = n
  /\ \A j \in k + 1..Len(parts) :
       ~(Binds(parts, j) /\ trie[Walk(Upto(parts, j))].name = n)

-----------------------------------------------------------------------------
(* The routes a request fits, with no trie: same method, same number of parts,
   and the same text where the route has one. *)
FitsParts(route, parts) ==
  /\ Len(route.parts) = Len(parts)
  /\ \A k \in DOMAIN parts : route.parts[k].kind = "static" => route.parts[k] = parts[k]

Fitting(method, parts) ==
  {i \in DOMAIN routes : routes[i].inserted /\ routes[i].method = method
                           /\ FitsParts(routes[i], parts)}

(* Route s leaves route r for a static part of the request where r has a
   parameter, the edges before being the same. *)
Shadows(s, r, parts) ==
  \E k \in DOMAIN parts :
    /\ k <= Len(s.parts) /\ k <= Len(r.parts)
    /\ NodeOf(Upto(s.parts, k - 1)) = NodeOf(Upto(r.parts, k - 1))
    /\ s.parts[k] = parts[k]
    /\ r.parts[k].kind = "param"

(* A request is answered by a route it fits, and of those by the most specific
   one: wherever another route first differs from it, the answer has the text
   and the other a parameter. *)
BestRouteAnswers ==
  \A method \in Methods, path \in Paths :
    LET parts == splitPath(path)
        h == Handler(method, path)
    IN h # NoHandler =>
         /\ h \in Fitting(method, parts)
         /\ \A i \in Fitting(method, parts) \ {h} : Shadows(routes[h], routes[i], parts)

(* A request that fits a route is answered, unless some route (of whatever
   method, fitting or not) shadows the ones it fits: matching does not go back. *)
MissesAreShadowed ==
  \A method \in Methods, path \in Paths :
    LET parts == splitPath(path) IN
    Handler(method, path) = NoHandler =>
      \A i \in Fitting(method, parts) :
        \E j \in DOMAIN routes : Shadows(routes[j], routes[i], parts)

(* Registering a route takes a request away from its handler only where the new
   route shadows the old one; a registration that is refused takes none. *)
RegistrationShadowsOnly ==
  [][\A method \in Methods, path \in Paths :
       LET h == Handler(method, path) IN
       h # NoHandler /\ Handler(method, path)' # h =>
         /\ routes'[Len(routes')].inserted
         /\ Shadows(routes'[Len(routes')], routes[h], splitPath(path))]_vars

(* A part of the answering route that is a parameter, its name being used once. *)
ParamAt(route, k) ==
  /\ route.parts[k].kind = "param"
  /\ \A j \in DOMAIN route.parts \ {k} : route.parts[j] # route.parts[k]

(* The call j comes through the node of the k-th part of route i with another
   name for it. *)
Renames(j, i, k) ==
  /\ k <= Len(routes[j].parts)
  /\ NodeOf(Upto(routes[j].parts, k)) = NodeOf(Upto(routes[i].parts, k))
  /\ routes[j].parts[k] # routes[i].parts[k]

(* "It extracts path parameters from parameterized segments" (router.h:66): the
   handler finds each parameter of its route under the name it has there. *)
ParamsBound ==
  \A method \in Methods, path \in Paths :
    LET parts == splitPath(path)
        h == Handler(method, path)
    IN h # NoHandler =>
         \A k \in DOMAIN parts :
           ParamAt(routes[h], k) => BoundTo(parts, routes[h].parts[k].text, k)

(* ... which holds as long as no later call, refused or not, names a parameter
   of the same place otherwise. *)
ParamsBoundUnlessRenamed ==
  \A method \in Methods, path \in Paths :
    LET parts == splitPath(path)
        h == Handler(method, path)
    IN h # NoHandler /\ (\A j \in h + 1..Len(routes), k \in DOMAIN parts : ~Renames(j, h, k)) =>
         \A k \in DOMAIN parts :
           ParamAt(routes[h], k) => BoundTo(parts, routes[h].parts[k].text, k)

=============================================================================
