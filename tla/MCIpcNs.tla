------------------------------ MODULE MCIpcNs ------------------------------
(***************************************************************************)
(* An instance of IpcNs for TLC.                                           *)
(***************************************************************************)
EXTENDS IpcNs, TLC

CONSTANTS t1, t2, t3, u1

MCUserOf == [t \in Tasks |-> u1]

(* Two tasks move to new namespaces again and again while memory is        *)
(* plugged; a task plugs memory and leaves the last of its namespace while *)
(* two others write the tunables of theirs; a task leaves its namespace    *)
(* for new ones while another task, in the init namespace, uses the queues *)
(* it leaves behind through a mount; or leaves it for good while the other *)
(* has CAP_SYS_RESOURCE.                                                   *)
MCScenarios == {
    [unshare |-> {t1, t2}, exit |-> {}, mq |-> {}, mount |-> {}, sysctl |-> {},
     hotplug |-> {t3}, capable |-> {}, nsproxy |-> [t \in Tasks |-> 0]],
    [unshare |-> {}, exit |-> {t1}, mq |-> {}, mount |-> {}, sysctl |-> {t2, t3},
     hotplug |-> {t1}, capable |-> {}, nsproxy |-> [t \in Tasks |-> IF t = t1 THEN 1 ELSE 0]],
    [unshare |-> {t1}, exit |-> {}, mq |-> {t1, t2}, mount |-> {t1}, sysctl |-> {},
     hotplug |-> {}, capable |-> {}, nsproxy |-> [t \in Tasks |-> IF t = t1 THEN 1 ELSE 0]],
    [unshare |-> {}, exit |-> {t1}, mq |-> {t1, t2}, mount |-> {t1}, sysctl |-> {},
     hotplug |-> {}, capable |-> {t2}, nsproxy |-> [t \in Tasks |-> IF t = t1 THEN 1 ELSE 0]]}
=============================================================================
