------------------------------- MODULE MCFanIn -------------------------------
(***************************************************************************)
(* FanIn for TLC.  Two clients compete for the shared trade channel; one,  *)
(* whose channels hold fewer errors than it reports, shows what a full     *)
(* error channel does.                                                     *)
(***************************************************************************)
EXTENDS FanIn

CONSTANTS c1, c2

MCClients == {c1, c2}
MCCalls == {{c1}, {c1, c2}}
MCMaxTrades == <<4, 2>>
MCMaxErrors == <<3, 0>>
=============================================================================
