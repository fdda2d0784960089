------------------------------ MODULE MCTables ------------------------------
(***************************************************************************)
(* The tables a socket is in, on small instances: Listener with three      *)
(* remote endpoints and room for three sockets, so that an endpoint can    *)
(* come back while its old socket awaits collection; the memberships of    *)
(* two sockets in a group; and the tree such tables are kept in.  The      *)
(* three share no state: a behaviour is one of the module that part names. *)
(***************************************************************************)
EXTENDS Listener, Multicast, Tree, TLC

CONSTANTS s1, s2, s3, c1, c2, c3

VARIABLE part    \* the module that moves

Symmetry == Permutations({s1, s2, s3}) \union Permutations({c1, c2, c3})

TablesInit ==
    /\ part \in {"listener", "mcast", "tree"} /\ Init /\ McInit /\ TreeInit
    /\ part # "listener" => \E c \in Clients : remote = [i \in Socks |-> c]

TablesNext ==
    /\ UNCHANGED part
    /\ \/ part = "listener" /\ Next /\ UNCHANGED <<mcastVars, treeVars>>
       \/ part = "mcast" /\ McNext /\ UNCHANGED <<vars, treeVars>>
       \/ part = "tree" /\ TreeNext /\ UNCHANGED <<vars, mcastVars>>

TablesSpec == TablesInit /\ [][TablesNext]_<<part, vars, mcastVars, treeVars>>
=============================================================================
