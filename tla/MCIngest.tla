------------------------------ MODULE MCIngest ------------------------------
(***************************************************************************)
(* A crawler whose attempts may find a technology and a scanner whose      *)
(* attempts may find a vulnerability, in one process.  A token is derived  *)
(* from the technology, and a lookup may bring the same vulnerability,     *)
(* about whose scope the two disagree.                                     *)
(***************************************************************************)
EXTENDS Ingest

CONSTANTS p1, crawl, scan, tech, token, cve

MCProcOf == [x \in Execs |-> p1]
MCScopeOf ==
  [x \in Execs |-> IF x = scan THEN [a \in {cve} |-> "OUT_OF_SCOPE"]
                              ELSE [a \in {tech} |-> "IN_SCOPE"]]
MCDerived == [a \in Assets |-> IF a = tech THEN {token} ELSE {}]
MCEnriched == [a \in Assets |-> IF a = tech THEN {cve} ELSE {}]
MCRoutes ==
  [a \in Assets |-> CASE a = tech -> {"probe", "match"}
                      [] a = cve -> {"verify"}
                      [] OTHER -> {}]
=============================================================================
