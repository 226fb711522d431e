---------------------------- MODULE MCRateLimit ----------------------------
(***************************************************************************)
(* A host's bucket with a rate and a global one with slots.  In one        *)
(* process an HTTP probe asks for a token and a slot and a DNS lookup that *)
(* the global rule does not match for a token; in another, nuclei takes no *)
(* token and every slot.                                                   *)
(***************************************************************************)
EXTENDS RateLimit, TLC

CONSTANTS host, all, http, dns, nuclei, p1, p2, HostRate, HostBurst

MCProcOf == (http :> p1) @@ (dns :> p1) @@ (nuclei :> p2)
MCBucketsOf == (http :> {host, all}) @@ (dns :> {host}) @@ (nuclei :> {host, all})
MCRequests == (http :> 1) @@ (dns :> 1) @@ (nuclei :> 0)
MCSlots == (http :> 1) @@ (dns :> 1) @@ (nuclei :> 2)
MCRate == [b \in Buckets |-> HostRate]
MCBurst == [b \in Buckets |-> HostBurst]
MCMaxConcurrency == [b \in Buckets |-> 2]
Symmetry == Permutations(Leases)
=============================================================================
