----------------------------- MODULE MCDispatch -----------------------------
(* An instance of Dispatch for TLC: quotas that a few requests exhaust, a  *)
(* quota of zero among them.  The commands of the other classes come       *)
(* without a limit.                                                        *)
EXTENDS Dispatch

MCQuota == [c \in Class |-> IF c = "Get" THEN 2 ELSE 0]

(* Addresses and sizes of four bits; three records; values of three        *)
(* characters.                                                             *)
Replies == INSTANCE Information WITH Width <- 4, MaxRecords <- 3, MaxLength <- 3

(* What the information commands reply is what the system said, in the     *)
(* part of it the host may see: interfaces, os-release and sizes, against  *)
(* their definitions over all small inputs (handlers/).                    *)
InformationExact ==
    Init => /\ Replies!PrefixesExact /\ Replies!InterfacesExact
            /\ Replies!QuotingExact /\ Replies!OsInfoExact
            /\ Replies!SizesExact

=============================================================================
