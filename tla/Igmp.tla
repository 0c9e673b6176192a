-------------------------------- MODULE Igmp --------------------------------
(***************************************************************************)
(* Membership in multicast groups (src/src/lwip/src/core/ipv4/igmp.c) on   *)
(* all interfaces: the list of groups with their states and timers, what   *)
(* routers ask and other members report, and what the hardware is told to  *)
(* let through.  Every interface has NETIF_FLAG_IGMP and igmp_mac_filter.  *)
(* Time is counted in calls of igmp_tmr.                                   *)
(***************************************************************************)
EXTENDS Integers, FiniteSets

CONSTANTS
    NumNetifs,          \* interfaces, numbered in the order of netif_list
    Groups, AllSystems, \* 224.0.0.1 is a group of its own
    NumGroups,          \* MEMP_NUM_IGMP_GROUP
    MaxResps,           \* the times for an answer that routers give
    V1Resp, JoinResp,   \* IGMP_V1_DELAYING_MEMBER_TMR, IGMP_JOIN_DELAYING_MEMBER_TMR
    AfterDivision,      \* what igmp_start_timer may leave when it divides by zero
    MaxUse,             \* bound: users of a group
    MaxIgmpFaults       \* bound: failed allocations

Netifs == 1..NumNetifs
Keys   == Netifs \X (Groups \cup {AllSystems})

ASSUME IgmpAssumption ==
    /\ AllSystems \notin Groups /\ IsFiniteSet(Groups)
    /\ MaxResps \subseteq Nat \ {0} /\ {V1Resp, JoinResp} \subseteq Nat \ {0, 1}
    /\ AfterDivision \subseteq Nat
    /\ {NumNetifs, NumGroups, MaxUse, MaxIgmpFaults} \subseteq Nat /\ MaxUse < 255

VARIABLES
    started,        \* the interfaces that were added
    groups,         \* igmp_group_list; what is not in it is "FREE"
    filter,         \* what the interfaces let through
    due,            \* how long routers still wait for a report, or 0 (history)
    lastReport,     \* who sent the last report since the group was joined (history)
    igmpFaults      \* failed allocations so far

igmpVars == <<started, groups, filter, due, lastReport, igmpFaults>>

Free   == [group_state |-> "FREE", timer |-> 0, last_reporter |-> FALSE, use |-> 0]
Listed == {k \in Keys : groups[k].group_state # "FREE"}

\* igmp_start_timer: LWIP_RAND() % (max_time - 1) + 1.
Timers(resp) == IF resp > 1 THEN 1..(resp - 1) ELSE AfterDivision

\* igmp_delaying_member, for all groups that are asked for; t are the new timers.
Bug_Waits(g, resp) ==
    \/ g.group_state = "IDLE"
    \/ g.group_state = "DELAYING" /\ g.timer = 0
Waits(g, resp) ==
    \/ g.group_state = "IDLE"
    \/ g.group_state = "DELAYING" /\ (g.timer = 0 \/ resp < g.timer)
Delays(asked, resp) == {k \in asked : Waits(groups[k], resp)}
igmp_delaying_member(asked, resp) ==
    \E t \in [Delays(asked, resp) -> Timers(resp)] :
        groups' = [k \in Keys |-> IF k \in Delays(asked, resp)
                                  THEN [groups[k] EXCEPT !.timer = t[k], !.group_state = "DELAYING"]
                                  ELSE groups[k]]

\* igmp_send may find no memory for what it is to send.
igmp_send(fails) ==
    /\ fails => igmpFaults < MaxIgmpFaults
    /\ igmpFaults' = igmpFaults + (IF fails THEN 1 ELSE 0)

-----------------------------------------------------------------------------
IgmpInit ==
    /\ started = {} /\ filter = {} /\ igmpFaults = 0
    /\ groups = [k \in Keys |-> Free]
    /\ due = [k \in Keys |-> 0] /\ lastReport = [k \in Keys |-> "nobody"]

Unreported == [group_state |-> "IDLE", timer |-> 0, last_reporter |-> FALSE, use |-> 1]

\* igmp_start, in netif_add, which does not look whether it had the memory.
igmp_start(n) ==
    LET all == <<n, AllSystems>>
    IN /\ n \notin started
       /\ started' = started \cup {n}
       /\ \/ /\ Cardinality(Listed) < NumGroups
             /\ groups' = [groups EXCEPT ![all] = Unreported]
             /\ filter' = filter \cup {all}
          \/ /\ Cardinality(Listed) >= NumGroups
             /\ UNCHANGED <<groups, filter>>
       /\ UNCHANGED <<due, lastReport, igmpFaults>>

\* igmp_stop, in netif_remove: nobody is told.
igmp_stop(n) ==
    LET gone == {k \in Listed : k[1] = n}
    IN /\ n \in started
       /\ started' = started \ {n}
       /\ groups' = [k \in Keys |-> IF k \in gone THEN Free ELSE groups[k]]
       /\ filter' = filter \ gone
       /\ due' = [k \in Keys |-> IF k \in gone THEN 0 ELSE due[k]]
       /\ lastReport' = [k \in Keys |-> IF k \in gone THEN "nobody" ELSE lastReport[k]]
       /\ UNCHANGED igmpFaults

\* igmp_report_groups, when the interface or its link comes up.
igmp_report_groups(n) ==
    /\ n \in started
    /\ igmp_delaying_member({k \in Listed : k[1] = n}, JoinResp)
    /\ UNCHANGED <<started, filter, due, lastReport, igmpFaults>>

\* igmp_joingroup on the interfaces N, in their order, until a group cannot be
\* allocated; those before it stay joined.
New(N, g)    == {n \in N : <<n, g>> \notin Listed}
Joined(N, g) ==
    {n \in N : Cardinality({m \in New(N, g) : m <= n}) + Cardinality(Listed) <= NumGroups}
igmp_joingroup(N, g) ==
    LET new == {<<n, g>> : n \in New(N, g) \cap Joined(N, g)}
        old == {<<n, g>> : n \in Joined(N, g) \ New(N, g)}
    IN /\ N # {} /\ N \subseteq started
       /\ \A k \in old : groups[k].use < MaxUse
       /\ \E t \in [new -> Timers(JoinResp)], failed \in SUBSET new :
            /\ igmp_send(failed # {})
            /\ groups' = [k \in Keys |->
                    IF k \in new
                    THEN [group_state |-> "DELAYING", timer |-> t[k], last_reporter |-> k \notin failed, use |-> 1]
                    ELSE IF k \in old THEN [groups[k] EXCEPT !.use = (@ + 1) % 256] ELSE groups[k]]
            /\ lastReport' = [k \in Keys |-> IF k \in new \ failed THEN "us" ELSE lastReport[k]]
       /\ filter' = filter \cup new
       /\ UNCHANGED <<started, due>>

\* igmp_leavegroup on the interfaces N: the last user's group is removed.
igmp_leavegroup(N, g) ==
    LET held == {k \in Listed : k[1] \in N /\ k[2] = g}
        last == {k \in held : groups[k].use <= 1}
    IN /\ N \subseteq started
       /\ groups' = [k \in Keys |->
                IF k \in last THEN Free
                ELSE IF k \in held THEN [groups[k] EXCEPT !.use = @ - 1] ELSE groups[k]]
       /\ filter' = filter \ last
       /\ due' = [k \in Keys |-> IF k \in last THEN 0 ELSE due[k]]
       /\ lastReport' = [k \in Keys |-> IF k \in last THEN "nobody" ELSE lastReport[k]]
       /\ UNCHANGED <<started, igmpFaults>>

\* igmp_input: a query for all groups of an interface, or for one; both come in
\* only to a group that is there.
Sooner(wait, resp) == IF wait = 0 \/ resp < wait THEN resp ELSE wait
GeneralQuery(n, v1, resp) ==
    LET time  == IF v1 THEN V1Resp ELSE resp
        asked == {k \in Listed : k[1] = n /\ k[2] # AllSystems}
    IN /\ <<n, AllSystems>> \in Listed
       /\ igmp_delaying_member(asked, time)
       /\ due' = [k \in Keys |-> IF k \in asked THEN Sooner(due[k], time) ELSE due[k]]
       /\ UNCHANGED <<started, filter, lastReport, igmpFaults>>
GroupQuery(n, g, resp) ==
    /\ <<n, g>> \in Listed
    /\ igmp_delaying_member({<<n, g>>}, resp)
    /\ due' = [due EXCEPT ![<<n, g>>] = Sooner(@, resp)]
    /\ UNCHANGED <<started, filter, lastReport, igmpFaults>>

\* igmp_input: another member's report.
ReportHeard(g) == [g EXCEPT !.timer = 0, !.group_state = "IDLE", !.last_reporter = FALSE]
Report(n, g) ==
    LET k == <<n, g>>
    IN /\ k \in Listed
       /\ groups' = [groups EXCEPT ![k] = IF @.group_state = "DELAYING" THEN ReportHeard(@) ELSE @]
       /\ due' = [due EXCEPT ![k] = 0]
       /\ lastReport' = [lastReport EXCEPT ![k] = "other"]
       /\ UNCHANGED <<started, filter, igmpFaults>>

\* igmp_tmr, igmp_timeout: the groups whose timers are over are reported.  They
\* stay "DELAYING" with no timer.
igmp_tmr ==
    LET over == {k \in Listed : groups[k].timer = 1}
        told == {k \in over : groups[k].group_state = "DELAYING"}
    IN \E failed \in SUBSET told :
        /\ igmp_send(failed # {})
        /\ groups' = [k \in Keys |->
                [groups[k] EXCEPT !.timer = IF @ > 0 THEN @ - 1 ELSE 0,
                                  !.last_reporter = @ \/ k \in told \ failed]]
        /\ due' = [k \in Keys |-> IF k \in told \/ due[k] = 0 THEN 0 ELSE due[k] - 1]
        /\ lastReport' = [k \in Keys |-> IF k \in told \ failed THEN "us" ELSE lastReport[k]]
        /\ UNCHANGED <<started, filter>>

\* The interfaces a user means: all, or that with a certain address.
Meant == {started} \cup {{n} : n \in started}

IgmpNext ==
    \/ \E n \in Netifs : igmp_start(n) \/ igmp_stop(n) \/ igmp_report_groups(n)
    \/ \E N \in Meant, g \in Groups : igmp_joingroup(N, g) \/ igmp_leavegroup(N, g)
    \/ \E n \in Netifs, v1 \in BOOLEAN, resp \in MaxResps : GeneralQuery(n, v1, resp)
    \/ \E n \in Netifs, g \in Groups, resp \in MaxResps : GroupQuery(n, g, resp)
    \/ \E n \in Netifs, g \in Groups : Report(n, g)
    \/ igmp_tmr

IgmpSpec == IgmpInit /\ [][IgmpNext]_igmpVars

-----------------------------------------------------------------------------
GroupType == [group_state : {"FREE", "DELAYING", "IDLE"}, timer : Nat, last_reporter : BOOLEAN, use : Nat]

IgmpTypeOK ==
    /\ started \subseteq Netifs /\ filter \subseteq Keys
    /\ groups \in [Keys -> GroupType] /\ due \in [Keys -> Nat]
    /\ lastReport \in [Keys -> {"nobody", "us", "other"}]
    /\ igmpFaults \in 0..MaxIgmpFaults

\* A router that asks for a group gets a report of it within the time it gave,
\* ours or another's, unless the group is left: whatever queries, reports and
\* joins come in between, a timer runs that ends in time (igmp_delaying_member).
AnsweredInTime == \A k \in Listed : due[k] > 0 => groups[k].timer \in 1..due[k]

\* Who leaves a group tells the routers exactly if it sent the last report: the
\* flag of a group says that no other member was heard since (igmp_input).
FlagSaysLast == \A k \in Listed : groups[k].last_reporter <=> lastReport[k] = "us"

\* The hardware lets the groups through that are in the list, and no others
\* (igmp_mac_filter), and the pool of groups suffices for them.
FilterFits == filter = Listed /\ Cardinality(Listed) <= NumGroups

MembershipKnown == AnsweredInTime /\ FlagSaysLast /\ FilterFits
=============================================================================
