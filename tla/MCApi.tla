-------------------------------- MODULE MCApi --------------------------------
(***************************************************************************)
(* The public demo's limits and the way of a request to its handler, each  *)
(* on a small instance: they share no state, so a behaviour is one of one  *)
(* part.  A server scene is a configuration with the requests that tell it *)
(* from the others.                                                        *)
(***************************************************************************)
EXTENDS PublicDemo, FrontDoor, TLC

CONSTANTS r1, r2, r3

VARIABLE part
vars == <<part, demoVars, doorVars>>

Request(key, cookie, route, write, csrf) ==
    [key |-> key, cookie |-> cookie, route |-> route, write |-> write, csrf |-> csrf]
Get(key, route) == Request(key, "none", route, FALSE, FALSE)
Post(key, route) == Request(key, "none", route, TRUE, TRUE)
Server(has, wanted) ==
    [public |-> "public" \in has, open |-> "open" \in has, required |-> "required" \in has,
     login |-> "login" \in has, limited |-> "limited" \in has, wanted |-> wanted]
SomeServers == {
    Server({"limited"}, {Get("operator", "read"), Get("none", "probe")}),
    Server({}, {Post("operator", "chat")}),
    Server({"public", "login"},
        {Post("none", "login"), Request("none", "none", "login", TRUE, FALSE),
         Request("none", r1, "manage", TRUE, TRUE), Request("none", r1, "manage", TRUE, FALSE)}),
    Server({"public", "required"},
        {Get("bad", "read"), Get("none", "read"), Get("none", "manage"), Post("operator", "manage"),
         Post("none", "login")}),
    Server({"open", "required"}, {Get("none", "read"), Get("operator", "read")}),
    Server({"open"}, {Get("none", "read"), Get("operator", "read")})}

Init == part \in {"demo", "door"} /\ DemoInit /\ DoorInit
            /\ (part = "demo" => server = CHOOSE s \in SomeServers : TRUE)
            /\ (part = "demo" => reachable)
Next ==
    /\ UNCHANGED part
    /\ \/ part = "demo" /\ DemoNext /\ UNCHANGED doorVars
       \/ part = "door" /\ DoorNext /\ UNCHANGED demoVars
Spec == Init /\ [][Next]_vars
Interchangeable == Permutations(Questions) \cup Permutations(Clients)
=============================================================================
