---------------------------- MODULE ReportParser ----------------------------
(***************************************************************************)
(* How the device reads a report (parser_mdm.c): for every field of its    *)
(* record the function that looks for a label, takes the value of the first*)
(* line that holds it, and returns 0 (found), -1 (missing) or 1 (not a     *)
(* field of this kind of report).                                          *)
(***************************************************************************)
EXTENDS Integers, FiniteSets, Payload

PRS_TYP_BTP == 1
PRS_TYP_PRD == 2
BTP_PRM_CNT == 14

Device == {"cMdm_sn", "cMdm_mdl", "cMdm_mfn",
           "cVER_MDM_FMW", "cVER_RTR_FMW", "cVER_APP_RLS", "cVER_APP_INV"}
SimFields == {"cIMSI1", "cIMSI2", "cCCID1", "cCCID2", "cSpn1", "cSpn2"}
Ips == {"cIP_ecm0", "cIP_eth0", "cIP_eth1", "cIP_eth2"}
Rats == {"cRAT1", "cRAT2"}
States == {"iNet_sts", "iPng_sts", "iActv_sim_slt", "iActv_Slt_sts", "cRtc_tm",
           "sSys_uptime", "sMem_info", "sRst_Time"}
BootFields == Device \cup SimFields \cup {"iBtp_Slt_sts"}
PeriodicFields == Ips \cup Rats \cup States \cup {"cCsq", "fTemp0", "fTemp1"}
Fields == BootFields \cup PeriodicFields
NoRecord == [f \in Fields |-> None]

\* The text each function looks for.  A number of 0 is a text without one,
\* which is found in front of every number: "NET_STS" in "NET_STS(1)".
DeviceKeys ==
  [cMdm_sn |-> "MDM_SN", cMdm_mdl |-> "MDM_MDL", cMdm_mfn |-> "MFN"]
VersionKeys ==
  [cVER_MDM_FMW |-> "VER_MDM_FMW", cVER_RTR_FMW |-> "VER_RTR_FMW",
   cVER_APP_RLS |-> "VER_APP_RLS", cVER_APP_INV |-> "VER_APP_INV"]
IpKeysMutant ==
  [cIP_ecm0 |-> "IP_ecm0", cIP_eth0 |-> "IP_eth0", cIP_eth1 |-> "IP_eth0",
   cIP_eth2 |-> "IP_eth2"]
IpKeys ==
  [cIP_ecm0 |-> "IP_ecm0", cIP_eth0 |-> "IP_eth0", cIP_eth1 |-> "IP_eth1",
   cIP_eth2 |-> "IP_eth2"]
SimKeysMutant ==
  [cIMSI1 |-> <<"IMSI", 1>>, cIMSI2 |-> <<"IMSI", 0>>,
   cCCID1 |-> <<"CCID", 1>>, cCCID2 |-> <<"CCID", 2>>,
   cSpn1 |-> <<"SPN", 1>>, cSpn2 |-> <<"SPN", 2>>]
SimKeys ==
  [cIMSI1 |-> <<"IMSI", 1>>, cIMSI2 |-> <<"IMSI", 2>>,
   cCCID1 |-> <<"CCID", 1>>, cCCID2 |-> <<"CCID", 2>>,
   cSpn1 |-> <<"SPN", 1>>, cSpn2 |-> <<"SPN", 2>>]
RatKeys == [cRAT1 |-> <<"SIM_RAT", 1>>, cRAT2 |-> <<"SIM_RAT", 2>>]

----------------------------------------------------------------------------
(* strstr() over the lines of split_line().  It looks at the whole line:   *)
(* none of the labels looked for is a part of another one, but it would    *)
(* also find one in a value (an operator may name its SIM as it likes),    *)
(* which is left out: a line is found by its label.                        *)

Found(lns, name, num) ==
  {p \in lns : p.line.name = name /\ (num = 0 \/ p.line.num = num)}
FirstLine(lns, name, num) ==
  LET found == Found(lns, name, num)
  IN  (CHOOSE p \in found : \A q \in found : p.pos <= q.pos).line.val
Missing(lns, name, num) == Found(lns, name, num) = {}

\* A missing line leaves the field as it was, or resets it; one without a value
\* empties it.
Keep(old, lns, name) == IF Missing(lns, name, 0) THEN old ELSE FirstLine(lns, name, 0)
Reset(lns, name, num) == IF Missing(lns, name, num) THEN None ELSE FirstLine(lns, name, num)

----------------------------------------------------------------------------
(* The parse functions: the value each leaves in its field.                *)

prs_device(f, lns, old) == Keep(old, lns, DeviceKeys[f])
prs_version(f, lns, old) == Keep(old, lns, VersionKeys[f])
prs_sim(f, lns) == Reset(lns, SimKeys[f][1], SimKeys[f][2])
prs_sim_rat(f, lns) == Reset(lns, RatKeys[f][1], RatKeys[f][2])
prs_mdm_IP(f, lns) == Reset(lns, IpKeys[f], 0)
prs_Btp_Slt_Sts(lns) == Reset(lns, "BTP_SLT_STS", 0)
prs_mdm_sys_uptime(lns) == Reset(lns, "SYS_UPTIME", 0)
prs_mdm_memInfo(lns) == Reset(lns, "MEM_INFO", 0)
prs_mdm_temp(f, lns) ==
  Reset(lns, IF f = "fTemp0" THEN "Power_amp_tmp" ELSE "Power_core_tmp", 0)
prs_mdm_RTC_TM(lns) == Reset(lns, "RTC_TM", 0)
prs_mdm_netSts(lns) == Reset(lns, "NET_STS", 0)
prs_mdm_pngSts(lns) == Reset(lns, "PNG_STS", 0)
prs_mdm_activeSim(lns) == Reset(lns, "ACTV_SIM_SLT", 0)
prs_Actv_Slt_Sts(lns) == Reset(lns, "ACTV_SLT_STS", 0)
prs_rstIntrvl(lns) == Reset(lns, "RST_TIME", 0)

\* str2numstr finds no number in a line without a value: cCsq stays as it was.
prs_mdm_csq(lns, old) ==
  IF Missing(lns, "CSQ", 0) THEN None
  ELSE IF FirstLine(lns, "CSQ", 0) = None THEN old
  ELSE FirstLine(lns, "CSQ", 0)

New(f, lns, old) ==
  CASE f \in DOMAIN DeviceKeys -> prs_device(f, lns, old)
    [] f \in DOMAIN VersionKeys -> prs_version(f, lns, old)
    [] f \in SimFields -> prs_sim(f, lns)
    [] f = "iBtp_Slt_sts" -> prs_Btp_Slt_Sts(lns)
    [] f \in Rats -> prs_sim_rat(f, lns)
    [] f \in Ips -> prs_mdm_IP(f, lns)
    [] f = "sSys_uptime" -> prs_mdm_sys_uptime(lns)
    [] f = "sMem_info" -> prs_mdm_memInfo(lns)
    [] f \in {"fTemp0", "fTemp1"} -> prs_mdm_temp(f, lns)
    [] f = "cRtc_tm" -> prs_mdm_RTC_TM(lns)
    [] f = "iNet_sts" -> prs_mdm_netSts(lns)
    [] f = "iPng_sts" -> prs_mdm_pngSts(lns)
    [] f = "iActv_sim_slt" -> prs_mdm_activeSim(lns)
    [] f = "iActv_Slt_sts" -> prs_Actv_Slt_Sts(lns)
    [] f = "sRst_Time" -> prs_rstIntrvl(lns)
    [] f = "cCsq" -> prs_mdm_csq(lns, old)

----------------------------------------------------------------------------
(* The table and the two loops over it.                                    *)

\* The place of the function of each field; one function reads both
\* temperatures.
prs_mdm_init ==
  [cMdm_sn |-> 0, cMdm_mdl |-> 1, cMdm_mfn |-> 2, cVER_MDM_FMW |-> 3, cVER_RTR_FMW |-> 4,
   cVER_APP_RLS |-> 5, cVER_APP_INV |-> 6, cIMSI1 |-> 7, cIMSI2 |-> 8, cCCID1 |-> 9,
   cCCID2 |-> 10, cSpn1 |-> 11, cSpn2 |-> 12, iBtp_Slt_sts |-> 13, sSys_uptime |-> 14,
   cCsq |-> 15, fTemp0 |-> 16, fTemp1 |-> 16, iNet_sts |-> 17, iPng_sts |-> 18,
   cRAT1 |-> 19, cRAT2 |-> 20, cIP_ecm0 |-> 21, cIP_eth0 |-> 22, cIP_eth1 |-> 23,
   cIP_eth2 |-> 24, sMem_info |-> 25, cRtc_tm |-> 26, iActv_sim_slt |-> 27,
   sRst_Time |-> 28, iActv_Slt_sts |-> 29]

Typ(f) == IF f \in BootFields THEN PRS_TYP_BTP ELSE PRS_TYP_PRD

\* A function leaves the fields of the other kind of report alone.  Mutant: the
\* addresses are not cleared when their line is missing.
f_prs_mdmMutant(f, lns, old, typ) ==
  IF typ = Typ(f) /\ (f \in Ips => New(f, lns, old) # None) THEN New(f, lns, old) ELSE old
f_prs_mdm(f, lns, old, typ) == IF typ = Typ(f) THEN New(f, lns, old) ELSE old

\* The functions that return 0 for a boot report: those of the device's own
\* values when they find their line, those of the SIMs and of the slots always.
\* Mutant: those of the SIMs only when they find their line.
ParsedMutant(lns) ==
  {f \in DOMAIN DeviceKeys : ~Missing(lns, DeviceKeys[f], 0)}
    \cup {f \in DOMAIN VersionKeys : ~Missing(lns, VersionKeys[f], 0)}
    \cup {f \in SimFields : ~Missing(lns, SimKeys[f][1], SimKeys[f][2])} \cup {"iBtp_Slt_sts"}
Parsed(lns) ==
  {f \in DOMAIN DeviceKeys : ~Missing(lns, DeviceKeys[f], 0)}
    \cup {f \in DOMAIN VersionKeys : ~Missing(lns, VersionKeys[f], 0)}
    \cup SimFields \cup {"iBtp_Slt_sts"}

BootRecord(lns, rec) == [f \in Fields |-> f_prs_mdm(f, lns, rec[f], PRS_TYP_BTP)]
\* Mutant: one function may be missing.
get_btp_rcrdMutant(lns) == IF Cardinality(Parsed(lns)) >= BTP_PRM_CNT - 1 THEN 0 ELSE -1
get_btp_rcrd(lns) == IF Cardinality(Parsed(lns)) = BTP_PRM_CNT THEN 0 ELSE -1

\* The loop begins with the last functions of boot reports.
PeriodicRecord(lns, rec) ==
  [f \in Fields |-> IF prs_mdm_init[f] >= 12 THEN f_prs_mdm(f, lns, rec[f], PRS_TYP_PRD)
                    ELSE rec[f]]
=============================================================================
