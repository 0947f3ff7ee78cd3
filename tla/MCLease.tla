------------------------------ MODULE MCLease ------------------------------
(***************************************************************************)
(* Leader election with and without timely round trips in one run of TLC,  *)
(* each with state and times of its own: `focus' names the one that moves. *)
(* The constants give the times of the timely one; Outage has any latency  *)
(* and Redis commands that fail.                                           *)
(***************************************************************************)
EXTENDS LeaderElection, TLC

CONSTANTS i1, i2, OutageLeaseMs, OutageRenewMs, OutageErrors, OutageFence

VARIABLES focus, oHolder, oTtl, oFence, oLeader, oToken, oBeat, oDue, oSince, oAcq, oRel,
          oRen, oLat, oUnsure

outageVars == <<oHolder, oTtl, oFence, oLeader, oToken, oBeat, oDue, oSince, oAcq, oRel,
                oRen, oLat, oUnsure>>

Outage == INSTANCE LeaderElection
            WITH holder <- oHolder, ttl <- oTtl, fence <- oFence, leader <- oLeader,
                 token <- oToken, beat <- oBeat, due <- oDue, since <- oSince,
                 acq <- oAcq, rel <- oRel, ren <- oRen, lat <- oLat, unsure <- oUnsure,
                 LeaseMs <- OutageLeaseMs, RenewMs <- OutageRenewMs, Timely <- FALSE,
                 RedisErrors <- OutageErrors, MaxFence <- OutageFence

MCInit == focus \in {"timely", "outage"} /\ Init /\ Outage!Init

MCNext ==
    \/ focus = "timely" /\ Next /\ UNCHANGED <<focus, outageVars>>
    \/ focus = "outage" /\ Outage!Next /\ UNCHANGED <<focus, vars>>

MCSpec ==
    /\ MCInit /\ [][MCNext]_<<focus, vars, outageVars>>
    /\ WF_outageVars(focus = "outage" /\ Outage!Tick)
    /\ \A i \in Inst : /\ WF_outageVars(focus = "outage" /\ Outage!Renew(i))
                       /\ SF_outageVars(focus = "outage" /\ Outage!RenewGet(i))
                       /\ SF_outageVars(focus = "outage" /\ Outage!RenewExpire(i))

----------------------------------------------------------------------------
\* When renewals and round trips keep their times, only the holder of the key
\* believes it leads: isLeader() is TRUE on at most one instance.
LeaderHoldsTimelyLease == TypeOK /\ LeaderHoldsLease

\* Through an outage too, a believed leader has its heartbeat armed, and an
\* instance whose lease went to someone else stops believing that it leads.
StaleLeadersStepDown == []Outage!LeaderHasHeartbeat /\ Outage!StaleLeaderStepsDown
============================================================================
