---------------------------- MODULE MCDispatcher ----------------------------
(***************************************************************************)
(* A slow worker with a limit of its own and a fast one: two crawls, one   *)
(* of which discovers names to resolve.                                    *)
(***************************************************************************)
EXTENDS DispatcherProps

CONSTANTS crawler, dns, c1, c2, d1, d2

MCWorkerOf == [t \in Tasks |-> IF t \in {c1, c2} THEN crawler ELSE dns]
MCPriority == [t \in Tasks |-> CASE t = c1 -> 4 [] t = c2 -> 3 [] t = d1 -> 2 [] OTHER -> 1]
MCCreated == [t \in Tasks |-> CASE t = c1 -> 1 [] t = c2 -> 2 [] t = d1 -> 3 [] OTHER -> 4]
MCWorkerLimit == [w \in {crawler} |-> 1]
MCDiscovers == [t \in Tasks |-> IF t = c1 THEN {d2} ELSE {}]
=============================================================================
