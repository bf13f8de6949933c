------------------------------- MODULE MC_Agent -------------------------------
(***************************************************************************)
(* The requests of SamWeb's HTTP servers that outlive a command: those     *)
(* that capture response bodies (FetchCapture), those that run JavaScript  *)
(* in SamWeb's page (Dispatch), and those that fetch through the proxy or  *)
(* keep its cookies (ProxyJar).  The three share no state, so a behaviour  *)
(* of this run is one of them, which `part` says.                          *)
(***************************************************************************)
EXTENDS FetchCapture, Dispatch, ProxyJar

VARIABLE part

Bodies  == part = "bodies" /\ Next /\ UNCHANGED <<dispatchVars, proxyVars, part>>
Scripts == part = "scripts" /\ DispatchNext /\ UNCHANGED <<vars, proxyVars, part>>
Cookies == part = "cookies" /\ ProxyNext /\ UNCHANGED <<vars, dispatchVars, part>>

AgentInit ==
  Init /\ DispatchInit /\ ProxyInit /\ part \in {"bodies", "scripts", "cookies"}

AgentSpec ==
  /\ AgentInit
  /\ [][Bodies \/ Scripts \/ Cookies]_<<vars, dispatchVars, proxyVars, part>>
  /\ Fairness /\ DispatchFairness
=============================================================================
