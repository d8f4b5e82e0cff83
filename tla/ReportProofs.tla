---------------------------- MODULE ReportProofs ----------------------------
(***************************************************************************)
(* Proofs about Report, for every number of reports and of failed reads.   *)
(*                                                                         *)
(* The argument: every line of a report is good, that is, its label is that*)
(* of the quantity its value is of (f_pack, Lemma PackGood), and every     *)
(* parse function takes the value of one line with its own label, or none  *)
(* (Lemmas NewDevice, NewReset, NewCsq).                                   *)
(***************************************************************************)
EXTENDS Report, FiniteSetTheorems, WellFoundedInduction, TLAPS

----------------------------------------------------------------------------
\* A set of naturals that is not empty has a least element: what a choice of the
\* first place in a text rests on.
LEMMA Least ==
  ASSUME NEW T, T \subseteq Nat, T # {}
  PROVE  \E x \in T : \A y \in T : x <= y
<1>1. PICK x \in T : \A y \in T : ~ (<<y, x>> \in OpToRel(<, Nat))
  BY NatLessThanWellFounded, WFMin, Zenon
<1>2. ASSUME NEW y \in T PROVE x <= y
  <2>1. ~(y < x)
    BY <1>1, Zenon DEF OpToRel
  <2>. QED BY <2>1
<1>. QED BY <1>2

\* The quantity each label stands for.
Pairs ==
  {<<"MDM_SN", "sn">>, <<"MDM_MDL", "model">>, <<"MDM_MDL", "leftover">>, <<"MFN", "mfn">>,
   <<"VER_MDM_FMW", "mdm_fmw">>, <<"VER_RTR_FMW", "rtr_fmw">>,
   <<"VER_APP_RLS", "app_rls">>, <<"VER_APP_INV", "app_inv">>,
   <<"IMSI", "imsi">>, <<"CCID", "ccid">>, <<"SPN", "spn">>,
   <<"BTP_SLT_STS", "btpSlt">>, <<"SYS_UPTIME", "uptime">>, <<"CSQ", "csq">>,
   <<"Power_amp_tmp", "amp">>, <<"Power_core_tmp", "core">>, <<"NET_STS", "net">>,
   <<"PNG_STS", "ping">>, <<"SIM_RAT", "rat">>, <<"IP_ecm0", "ecm0">>,
   <<"IP_eth0", "eth0">>, <<"IP_eth1", "eth1">>, <<"IP_eth2", "eth2">>,
   <<"MEM_INFO", "mem">>, <<"RTC_TM", "rtc">>, <<"ACTV_SIM_SLT", "slot">>,
   <<"RST_TIME", "rst">>, <<"ACTV_SLT_STS", "sltSts">>}

DeviceNames ==
  {"MDM_SN", "MDM_MDL", "MFN", "VER_MDM_FMW", "VER_RTR_FMW", "VER_APP_RLS", "VER_APP_INV"}
SimNames == {"IMSI", "CCID", "SPN", "SIM_RAT"}

\* The slip that leaves a line of the router's own values blank.
BlankLine ==
  [MDM_SN |-> "no_sn", MDM_MDL |-> "no_model",
   VER_MDM_FMW |-> "no_mdm_fmw", VER_APP_RLS |-> "no_app_rls"]
Blank(name, F) == name \in DOMAIN BlankLine /\ BlankLine[name] \in F
MayMiss(f, F) == f \in DOMAIN MayBeEmpty /\ MayBeEmpty[f] \in F

\* A line of report n, when F was missed: its value is of the quantity of its
\* label and of this report; the router's own values are only blank by a slip of
\* F; the number of a SIM's line is the SIM, if true.
Good(l, n) == l.val # None => <<l.name, l.val.of>> \in Pairs /\ l.val.at = n
Filled(l, F) == l.name \in DeviceNames /\ l.val = None => Blank(l.name, F)
OwnSim(l) == l.name \in SimNames /\ l.num \in Sims /\ l.val # None => l.val.sim = l.num

GoodLines(lns, n, tr, F) ==
  \A p \in lns :
    p.pos \in Nat /\ Good(p.line, n) /\ Filled(p.line, F) /\ (tr => OwnSim(p.line))

LinesInv == GoodLines(out, at, truthful, missed)

IInv == TypeOK /\ LinesInv /\ RightField /\ RightSim /\ WholeBoot /\ OneReport

----------------------------------------------------------------------------

\* The first line with a label is one of the lines with that label.
LEMMA FirstLineFound ==
  ASSUME NEW lns, \A p \in lns : p.pos \in Nat,
         NEW name, NEW num, ~Missing(lns, name, num)
  PROVE  \E p \in lns : /\ p.line.name = name
                        /\ num = 0 \/ p.line.num = num
                        /\ FirstLine(lns, name, num) = p.line.val
<1>. DEFINE found == Found(lns, name, num)
            T == {p.pos : p \in found}
<1>1. T \subseteq Nat /\ T # {}
  BY DEF Missing, Found
<1>. HIDE DEF T
<1>2. PICK x \in T : \A y \in T : x <= y
  BY <1>1, Least
<1>. USE DEF T
<1>3. \E p \in found : \A q \in found : p.pos <= q.pos
  BY <1>2
<1>4. (CHOOSE p \in found : \A q \in found : p.pos <= q.pos) \in found
  BY <1>3
<1>. QED BY <1>4 DEF FirstLine, Found

----------------------------------------------------------------------------
(* The lines the router writes.                                            *)

\* A line that is written when its read returned 0 is good, if a slip explains
\* that it is blank.
LEMMA WrittenGood ==
  ASSUME NEW ok, NEW got, NEW name, NEW of, NEW r, NEW F,
         <<name, of>> \in Pairs, name \notin SimNames, of # "nothing",
         ~got => Blank(name, F),
         NEW l \in Written(ok, got, name, of, r)
  PROVE  Good(l, r.at) /\ Filled(l, F) /\ OwnSim(l)
<1>1. l = Line(name, 0, IF got THEN Value(of, r) ELSE None)
  BY DEF Written
<1>2. l.name = name /\ l.num = 0 /\ l.val = IF got THEN Value(of, r) ELSE None
  BY <1>1 DEF Line
<1>3. got => l.val.of = of /\ l.val.at = r.at
  BY <1>2 DEF Value
<1>4. got => l.val # None
  BY <1>3 DEF None
<1>. QED BY <1>2, <1>3, <1>4 DEF Good, Filled, OwnSim

LEMMA IfReadGood ==
  ASSUME NEW ok, NEW name, NEW of, NEW r, NEW F,
         <<name, of>> \in Pairs, name \notin SimNames, of # "nothing",
         NEW l \in IfRead(ok, name, of, r)
  PROVE  Good(l, r.at) /\ Filled(l, F) /\ OwnSim(l)
<1>1. l \in Written(ok, TRUE, name, of, r)
  BY DEF IfRead
<1>. QED BY <1>1, WrittenGood

\* So is one that is written without it, when its number is its SIM.
LEMMA AlwaysGood ==
  ASSUME NEW ok, NEW name, NEW num, NEW of, NEW r, NEW F,
         <<name, of>> \in Pairs, name \notin DeviceNames,
         NEW l \in Always(ok, name, num, of, r)
  PROVE  /\ Good(l, r.at) /\ Filled(l, F)
         /\ name \notin SimNames \/ (ok /\ num \in Sims => num = r.sim) => OwnSim(l)
<1>1. l = Line(name, num, IF ok THEN Value(of, r) ELSE None)
  BY DEF Always
<1>2. l.name = name /\ l.num = num /\ l.val = IF ok THEN Value(of, r) ELSE None
  BY <1>1 DEF Line
<1>3. l.val # None => ok /\ l.val.of = of /\ l.val.at = r.at /\ l.val.sim = r.sim
  BY <1>2 DEF Value
<1>4. Good(l, r.at) /\ Filled(l, F)
  BY <1>2, <1>3 DEF Good, Filled
<1>5. name \notin SimNames \/ (ok /\ num \in Sims => num = r.sim) => OwnSim(l)
  BY <1>2, <1>3 DEF OwnSim
<1>. QED BY <1>4, <1>5

\* Every pack function writes good lines, whatever can be read and under
\* whatever settings.
LEMMA PackGood ==
  ASSUME NEW f \in PackFunctions, NEW F, NEW r \in Settings,
         NEW typ \in {BTUP, PRD, SIM, SIM + FILL}, Answers(f, typ),
         NEW l \in f_pack(f, F, r, typ)
  PROVE  Good(l, r.at) /\ Filled(l, F) /\ (Truthful(r, typ) => OwnSim(l))
<1>. DEFINE ok == f \notin F
<1>1. CASE f = "sn"
  <2>1. l \in Written(ok, "no_sn" \notin F, "MDM_SN", "sn", r)
    BY <1>1 DEF f_pack, pack_mdm_sn
  <2>2. <<"MDM_SN", "sn">> \in Pairs /\ "MDM_SN" \notin SimNames
    BY DEF Pairs, SimNames
  <2>3. ~("no_sn" \notin F) => Blank("MDM_SN", F)
    BY DEF Blank, BlankLine
  <2>. QED BY <2>1, <2>2, <2>3, WrittenGood
<1>2. CASE f = "model"
  <2>. DEFINE of == IF "other_model" \notin F THEN "model" ELSE "leftover"
  <2>1. l \in Written(ok, "no_model" \notin F, "MDM_MDL", of, r)
    BY <1>2 DEF f_pack, pack_mdm_model
  <2>2. <<"MDM_MDL", of>> \in Pairs /\ "MDM_MDL" \notin SimNames /\ of # "nothing"
    BY DEF Pairs, SimNames
  <2>3. ~("no_model" \notin F) => Blank("MDM_MDL", F)
    BY DEF Blank, BlankLine
  <2>. HIDE DEF of
  <2>. QED BY <2>1, <2>2, <2>3, WrittenGood
<1>3. CASE f = "mfn"
  <2>1. l \in IfRead(ok, "MFN", "mfn", r)
    BY <1>3 DEF f_pack, pack_mdm_mfn
  <2>2. <<"MFN", "mfn">> \in Pairs /\ "MFN" \notin SimNames
    BY DEF Pairs, SimNames
  <2>. QED BY <2>1, <2>2, IfReadGood
<1>4. CASE f = "uptime"
  <2>1. l \in IfRead(ok, "SYS_UPTIME", "uptime", r)
    BY <1>4 DEF f_pack, pack_sys_uptime
  <2>2. <<"SYS_UPTIME", "uptime">> \in Pairs /\ "SYS_UPTIME" \notin SimNames
    BY DEF Pairs, SimNames
  <2>. QED BY <2>1, <2>2, IfReadGood
<1>5. CASE f = "paTmp"
  <2>1. l \in IfRead(ok, "Power_amp_tmp", "amp", r)
    BY <1>5 DEF f_pack, pack_mdm_paTmp
  <2>2. <<"Power_amp_tmp", "amp">> \in Pairs /\ "Power_amp_tmp" \notin SimNames
    BY DEF Pairs, SimNames
  <2>. QED BY <2>1, <2>2, IfReadGood
<1>6. CASE f = "pcTmp"
  <2>1. l \in IfRead(ok, "Power_core_tmp", "core", r)
    BY <1>6 DEF f_pack, pack_mdm_pcTmp
  <2>2. <<"Power_core_tmp", "core">> \in Pairs /\ "Power_core_tmp" \notin SimNames
    BY DEF Pairs, SimNames
  <2>. QED BY <2>1, <2>2, IfReadGood
<1>7. CASE f = "time"
  <2>1. l \in IfRead(TRUE, "RTC_TM", "rtc", r)
    BY <1>7 DEF f_pack, pack_sys_time
  <2>2. <<"RTC_TM", "rtc">> \in Pairs /\ "RTC_TM" \notin SimNames
    BY DEF Pairs, SimNames
  <2>. QED BY <2>1, <2>2, IfReadGood
<1>8. CASE f = "sim_slot"
  <2>1. l \in IfRead(r.file >= 0, "ACTV_SIM_SLT", "slot", r)
    BY <1>8 DEF f_pack, pack_sim_slot
  <2>2. <<"ACTV_SIM_SLT", "slot">> \in Pairs /\ "ACTV_SIM_SLT" \notin SimNames
    BY DEF Pairs, SimNames
  <2>. QED BY <2>1, <2>2, IfReadGood
<1>9. CASE f = "sltSts"
  <2>1. l \in IfRead(TRUE, "ACTV_SLT_STS", "sltSts", r)
    BY <1>9 DEF f_pack, pack_mdm_sltSts
  <2>2. <<"ACTV_SLT_STS", "sltSts">> \in Pairs /\ "ACTV_SLT_STS" \notin SimNames
    BY DEF Pairs, SimNames
  <2>. QED BY <2>1, <2>2, IfReadGood
<1>10. CASE f = "rst"
  <2>1. l \in IfRead(ok, "RST_TIME", "rst", r)
    BY <1>10 DEF f_pack, pack_mdm_rstIntrvl
  <2>2. <<"RST_TIME", "rst">> \in Pairs /\ "RST_TIME" \notin SimNames
    BY DEF Pairs, SimNames
  <2>. QED BY <2>1, <2>2, IfReadGood
<1>11. CASE f = "csq"
  <2>1. l \in Always(ok, "CSQ", 0, "csq", r)
    BY <1>11 DEF f_pack, pack_mdm_csq
  <2>2. <<"CSQ", "csq">> \in Pairs /\ "CSQ" \notin DeviceNames /\ "CSQ" \notin SimNames
    BY DEF Pairs, DeviceNames, SimNames
  <2>. QED BY <2>1, <2>2, AlwaysGood
<1>12. CASE f = "netSts"
  <2>1. l \in Always(ok, "NET_STS", r.sim, "net", r)
    BY <1>12 DEF f_pack, pack_mdm_netSts
  <2>2. <<"NET_STS", "net">> \in Pairs /\ "NET_STS" \notin DeviceNames /\ "NET_STS" \notin SimNames
    BY DEF Pairs, DeviceNames, SimNames
  <2>. QED BY <2>1, <2>2, AlwaysGood
<1>13. CASE f = "pngSts"
  <2>1. l \in Always(ok, "PNG_STS", r.file, "ping", r)
    BY <1>13 DEF f_pack, pack_mdm_pngSts
  <2>2. <<"PNG_STS", "ping">> \in Pairs /\ "PNG_STS" \notin DeviceNames /\ "PNG_STS" \notin SimNames
    BY DEF Pairs, DeviceNames, SimNames
  <2>. QED BY <2>1, <2>2, AlwaysGood
<1>14. CASE f = "imsi"
  <2>1. l \in Always(ok /\ Fills(typ), "IMSI", r.file, "imsi", r)
    BY <1>14 DEF f_pack, pack_mdm_imsi, pack_sim
  <2>2. <<"IMSI", "imsi">> \in Pairs /\ "IMSI" \notin DeviceNames
    BY DEF Pairs, DeviceNames
  <2>3. Truthful(r, typ) => (ok /\ Fills(typ) /\ r.file \in Sims => r.file = r.sim)
    BY DEF Truthful
  <2>. QED BY <2>1, <2>2, <2>3, AlwaysGood
<1>15. CASE f = "ccid"
  <2>1. l \in Always(ok /\ Fills(typ), "CCID", r.file, "ccid", r)
    BY <1>15 DEF f_pack, pack_mdm_ccid, pack_sim
  <2>2. <<"CCID", "ccid">> \in Pairs /\ "CCID" \notin DeviceNames
    BY DEF Pairs, DeviceNames
  <2>3. Truthful(r, typ) => (ok /\ Fills(typ) /\ r.file \in Sims => r.file = r.sim)
    BY DEF Truthful
  <2>. QED BY <2>1, <2>2, <2>3, AlwaysGood
<1>16. CASE f = "spn"
  <2>1. l \in Always(ok /\ Fills(typ), "SPN", r.file, "spn", r)
    BY <1>16 DEF f_pack, pack_mdm_spn, pack_sim
  <2>2. <<"SPN", "spn">> \in Pairs /\ "SPN" \notin DeviceNames
    BY DEF Pairs, DeviceNames
  <2>3. Truthful(r, typ) => (ok /\ Fills(typ) /\ r.file \in Sims => r.file = r.sim)
    BY DEF Truthful
  <2>. QED BY <2>1, <2>2, <2>3, AlwaysGood
<1>17. CASE f = "rat"
  <2>1. l \in Always(ok, "SIM_RAT", r.file, "rat", r)
    BY <1>17 DEF f_pack, pack_mdm_rat
  <2>2. <<"SIM_RAT", "rat">> \in Pairs /\ "SIM_RAT" \notin DeviceNames
    BY DEF Pairs, DeviceNames
  <2>3. Fills(typ)
    BY <1>17 DEF Answers, Kinds, Kind, Periodic, Boot, SimSpecific, Fills, BTUP, PRD, SIM, FILL
  <2>4. Truthful(r, typ) => (ok /\ r.file \in Sims => r.file = r.sim)
    BY <2>3 DEF Truthful
  <2>. QED BY <2>1, <2>2, <2>4, AlwaysGood
<1>18. CASE f = "fmwv"
  <2>1. \/ l \in Written(ok, "no_mdm_fmw" \notin F, "VER_MDM_FMW", "mdm_fmw", r)
        \/ l \in IfRead(ok, "VER_RTR_FMW", "rtr_fmw", r)
        \/ l \in Written(ok, "no_app_rls" \notin F, "VER_APP_RLS", "app_rls", r)
        \/ l \in IfRead(ok, "VER_APP_INV", "app_inv", r)
    BY <1>18 DEF f_pack, pack_rtr_fmwv
  <2>2. /\ <<"VER_MDM_FMW", "mdm_fmw">> \in Pairs /\ "VER_MDM_FMW" \notin SimNames
        /\ <<"VER_RTR_FMW", "rtr_fmw">> \in Pairs /\ "VER_RTR_FMW" \notin SimNames
        /\ <<"VER_APP_RLS", "app_rls">> \in Pairs /\ "VER_APP_RLS" \notin SimNames
        /\ <<"VER_APP_INV", "app_inv">> \in Pairs /\ "VER_APP_INV" \notin SimNames
    BY DEF Pairs, SimNames
  <2>3. /\ ~("no_mdm_fmw" \notin F) => Blank("VER_MDM_FMW", F)
        /\ ~("no_app_rls" \notin F) => Blank("VER_APP_RLS", F)
    BY DEF Blank, BlankLine
  <2>. QED BY <2>1, <2>2, <2>3, IfReadGood, WrittenGood
<1>19. ASSUME NEW b, l \in pack_eth_info(b, r)
       PROVE  Good(l, r.at) /\ Filled(l, F) /\ OwnSim(l)
  <2>1. \/ l \in IfRead(b, "IP_ecm0", "ecm0", r) \/ l \in IfRead(b, "IP_eth0", "eth0", r)
        \/ l \in IfRead(b, "IP_eth1", "eth1", r) \/ l \in IfRead(b, "IP_eth2", "eth2", r)
    BY <1>19 DEF pack_eth_info
  <2>2. /\ <<"IP_ecm0", "ecm0">> \in Pairs /\ "IP_ecm0" \notin SimNames
        /\ <<"IP_eth0", "eth0">> \in Pairs /\ "IP_eth0" \notin SimNames
        /\ <<"IP_eth1", "eth1">> \in Pairs /\ "IP_eth1" \notin SimNames
        /\ <<"IP_eth2", "eth2">> \in Pairs /\ "IP_eth2" \notin SimNames
    BY DEF Pairs, SimNames
  <2>. QED BY <2>1, <2>2, IfReadGood
<1>20. CASE f = "eth"
  BY <1>20, <1>19 DEF f_pack
<1>21. CASE f = "meminfo"
  <2>1. l \in IfRead(TRUE, "MEM_INFO", "mem", r) \/ l \in pack_eth_info("eth" \notin F, r)
    BY <1>21 DEF f_pack, pack_meminfo
  <2>2. <<"MEM_INFO", "mem">> \in Pairs /\ "MEM_INFO" \notin SimNames
    BY DEF Pairs, SimNames
  <2>. QED BY <2>1, <2>2, <1>19, IfReadGood
<1>. QED
  BY <1>1, <1>2, <1>3, <1>4, <1>5, <1>6, <1>7, <1>8, <1>9, <1>10, <1>11, <1>12, <1>13, <1>14, <1>15, <1>16, <1>17, <1>18, <1>20, <1>21 DEF PackFunctions, pack_func_init

\* So every line of a section is good.
LEMMA SectionGood ==
  ASSUME NEW from \in Nat, NEW F, NEW r \in Settings, NEW typ \in {BTUP, PRD, SIM, SIM + FILL}
  PROVE  GoodLines(Section(from, F, r, typ), r.at, Truthful(r, typ), F)
<1>. SUFFICES ASSUME NEW p \in Section(from, F, r, typ)
              PROVE  /\ p.pos \in Nat /\ Good(p.line, r.at) /\ Filled(p.line, F)
                     /\ Truthful(r, typ) => OwnSim(p.line)
  BY DEF GoodLines
<1>1. PICK f \in {g \in PackFunctions : Answers(g, typ)} :
        \E l \in f_pack(f, F, r, typ) : p = [pos |-> from + pack_func_init[f], line |-> l]
  BY DEF Section
<1>2. PICK l \in f_pack(f, F, r, typ) : p = [pos |-> from + pack_func_init[f], line |-> l]
  BY <1>1
<1>3. Good(l, r.at) /\ Filled(l, F) /\ (Truthful(r, typ) => OwnSim(l))
  BY <1>1, PackGood
<1>4. pack_func_init[f] \in Nat
  BY <1>1 DEF PackFunctions, pack_func_init
<1>. QED BY <1>2, <1>3, <1>4

----------------------------------------------------------------------------
(* The fields the device reads.                                            *)

\* A parse function of the router's own values takes the value of the first
\* line with its label, or keeps what it has.
LEMMA NewDevice ==
  ASSUME NEW lns, NEW old
  PROVE
    /\ New("cMdm_sn", lns, old) = Keep(old, lns, "MDM_SN")
    /\ New("cMdm_mdl", lns, old) = Keep(old, lns, "MDM_MDL")
    /\ New("cMdm_mfn", lns, old) = Keep(old, lns, "MFN")
    /\ New("cVER_MDM_FMW", lns, old) = Keep(old, lns, "VER_MDM_FMW")
    /\ New("cVER_RTR_FMW", lns, old) = Keep(old, lns, "VER_RTR_FMW")
    /\ New("cVER_APP_RLS", lns, old) = Keep(old, lns, "VER_APP_RLS")
    /\ New("cVER_APP_INV", lns, old) = Keep(old, lns, "VER_APP_INV")
<1>. USE DEF DeviceKeys, VersionKeys, SimFields, Rats, Ips
<1>1. New("cMdm_sn", lns, old) = Keep(old, lns, "MDM_SN")
  BY DEF New, prs_device
<1>2. New("cMdm_mdl", lns, old) = Keep(old, lns, "MDM_MDL")
  BY DEF New, prs_device
<1>3. New("cMdm_mfn", lns, old) = Keep(old, lns, "MFN")
  BY DEF New, prs_device
<1>4. New("cVER_MDM_FMW", lns, old) = Keep(old, lns, "VER_MDM_FMW")
  BY DEF New, prs_version
<1>5. New("cVER_RTR_FMW", lns, old) = Keep(old, lns, "VER_RTR_FMW")
  BY DEF New, prs_version
<1>6. New("cVER_APP_RLS", lns, old) = Keep(old, lns, "VER_APP_RLS")
  BY DEF New, prs_version
<1>7. New("cVER_APP_INV", lns, old) = Keep(old, lns, "VER_APP_INV")
  BY DEF New, prs_version
<1>. QED BY <1>1, <1>2, <1>3, <1>4, <1>5, <1>6, <1>7

\* The others take it or are reset,
LEMMA NewReset ==
  ASSUME NEW lns, NEW old
  PROVE
    /\ New("cIMSI1", lns, old) = Reset(lns, "IMSI", 1)
    /\ New("cIMSI2", lns, old) = Reset(lns, "IMSI", 2)
    /\ New("cCCID1", lns, old) = Reset(lns, "CCID", 1)
    /\ New("cCCID2", lns, old) = Reset(lns, "CCID", 2)
    /\ New("cSpn1", lns, old) = Reset(lns, "SPN", 1)
    /\ New("cSpn2", lns, old) = Reset(lns, "SPN", 2)
    /\ New("iBtp_Slt_sts", lns, old) = Reset(lns, "BTP_SLT_STS", 0)
    /\ New("cRAT1", lns, old) = Reset(lns, "SIM_RAT", 1)
    /\ New("cRAT2", lns, old) = Reset(lns, "SIM_RAT", 2)
    /\ New("cIP_ecm0", lns, old) = Reset(lns, "IP_ecm0", 0)
    /\ New("cIP_eth0", lns, old) = Reset(lns, "IP_eth0", 0)
    /\ New("cIP_eth1", lns, old) = Reset(lns, "IP_eth1", 0)
    /\ New("cIP_eth2", lns, old) = Reset(lns, "IP_eth2", 0)
    /\ New("fTemp0", lns, old) = Reset(lns, "Power_amp_tmp", 0)
    /\ New("fTemp1", lns, old) = Reset(lns, "Power_core_tmp", 0)
    /\ New("sSys_uptime", lns, old) = Reset(lns, "SYS_UPTIME", 0)
    /\ New("sMem_info", lns, old) = Reset(lns, "MEM_INFO", 0)
    /\ New("cRtc_tm", lns, old) = Reset(lns, "RTC_TM", 0)
    /\ New("iNet_sts", lns, old) = Reset(lns, "NET_STS", 0)
    /\ New("iPng_sts", lns, old) = Reset(lns, "PNG_STS", 0)
    /\ New("iActv_sim_slt", lns, old) = Reset(lns, "ACTV_SIM_SLT", 0)
    /\ New("iActv_Slt_sts", lns, old) = Reset(lns, "ACTV_SLT_STS", 0)
    /\ New("sRst_Time", lns, old) = Reset(lns, "RST_TIME", 0)
<1>. USE DEF DeviceKeys, VersionKeys, SimFields, Rats, Ips
<1>1. New("cIMSI1", lns, old) = Reset(lns, "IMSI", 1)
  BY DEF New, prs_sim, SimKeys
<1>2. New("cIMSI2", lns, old) = Reset(lns, "IMSI", 2)
  BY DEF New, prs_sim, SimKeys
<1>3. New("cCCID1", lns, old) = Reset(lns, "CCID", 1)
  BY DEF New, prs_sim, SimKeys
<1>4. New("cCCID2", lns, old) = Reset(lns, "CCID", 2)
  BY DEF New, prs_sim, SimKeys
<1>5. New("cSpn1", lns, old) = Reset(lns, "SPN", 1)
  BY DEF New, prs_sim, SimKeys
<1>6. New("cSpn2", lns, old) = Reset(lns, "SPN", 2)
  BY DEF New, prs_sim, SimKeys
<1>7. New("iBtp_Slt_sts", lns, old) = Reset(lns, "BTP_SLT_STS", 0)
  BY DEF New, prs_Btp_Slt_Sts
<1>8. New("cRAT1", lns, old) = Reset(lns, "SIM_RAT", 1)
  BY DEF New, prs_sim_rat, RatKeys
<1>9. New("cRAT2", lns, old) = Reset(lns, "SIM_RAT", 2)
  BY DEF New, prs_sim_rat, RatKeys
<1>10. New("cIP_ecm0", lns, old) = Reset(lns, "IP_ecm0", 0)
  BY DEF New, prs_mdm_IP, IpKeys
<1>11. New("cIP_eth0", lns, old) = Reset(lns, "IP_eth0", 0)
  BY DEF New, prs_mdm_IP, IpKeys
<1>12. New("cIP_eth1", lns, old) = Reset(lns, "IP_eth1", 0)
  BY DEF New, prs_mdm_IP, IpKeys
<1>13. New("cIP_eth2", lns, old) = Reset(lns, "IP_eth2", 0)
  BY DEF New, prs_mdm_IP, IpKeys
<1>14. New("fTemp0", lns, old) = Reset(lns, "Power_amp_tmp", 0)
  BY DEF New, prs_mdm_temp
<1>15. New("fTemp1", lns, old) = Reset(lns, "Power_core_tmp", 0)
  BY DEF New, prs_mdm_temp
<1>16. New("sSys_uptime", lns, old) = Reset(lns, "SYS_UPTIME", 0)
  BY DEF New, prs_mdm_sys_uptime
<1>17. New("sMem_info", lns, old) = Reset(lns, "MEM_INFO", 0)
  BY DEF New, prs_mdm_memInfo
<1>18. New("cRtc_tm", lns, old) = Reset(lns, "RTC_TM", 0)
  BY DEF New, prs_mdm_RTC_TM
<1>19. New("iNet_sts", lns, old) = Reset(lns, "NET_STS", 0)
  BY DEF New, prs_mdm_netSts
<1>20. New("iPng_sts", lns, old) = Reset(lns, "PNG_STS", 0)
  BY DEF New, prs_mdm_pngSts
<1>21. New("iActv_sim_slt", lns, old) = Reset(lns, "ACTV_SIM_SLT", 0)
  BY DEF New, prs_mdm_activeSim
<1>22. New("iActv_Slt_sts", lns, old) = Reset(lns, "ACTV_SLT_STS", 0)
  BY DEF New, prs_Actv_Slt_Sts
<1>23. New("sRst_Time", lns, old) = Reset(lns, "RST_TIME", 0)
  BY DEF New, prs_rstIntrvl
<1>. QED BY <1>1, <1>2, <1>3, <1>4, <1>5, <1>6, <1>7, <1>8, <1>9, <1>10, <1>11, <1>12, <1>13, <1>14, <1>15, <1>16, <1>17, <1>18, <1>19, <1>20, <1>21, <1>22, <1>23

\* and the signal quality is kept, reset or read.
LEMMA NewCsq ==
  ASSUME NEW lns, NEW old
  PROVE  \/ New("cCsq", lns, old) \in {None, old}
         \/ ~Missing(lns, "CSQ", 0) /\ New("cCsq", lns, old) = FirstLine(lns, "CSQ", 0)
<1>1. New("cCsq", lns, old) = prs_mdm_csq(lns, old)
  BY DEF New, DeviceKeys, VersionKeys, SimFields, Rats, Ips
<1>. QED BY <1>1 DEF prs_mdm_csq

\* A value of a quantity in of and of report n, unless it is none.
Fresh(v, of, n) == v # None => v.of \in of /\ v.at = n

\* What a line with a label that stands for one quantity says, of a good report.
LEMMA LineRead ==
  ASSUME NEW lns, NEW n, NEW tr, NEW F, GoodLines(lns, n, tr, F),
         NEW name, NEW of, \A o : <<name, o>> \in Pairs => o \in of,
         NEW num, ~Missing(lns, name, num)
  PROVE  /\ Fresh(FirstLine(lns, name, num), of, n)
         /\ name \in DeviceNames /\ FirstLine(lns, name, num) = None => Blank(name, F)
         /\ tr /\ name \in SimNames /\ num \in Sims /\ FirstLine(lns, name, num) # None
              => FirstLine(lns, name, num).sim = num
<1>1. \A p \in lns : p.pos \in Nat
  BY DEF GoodLines
<1>2. PICK p \in lns : /\ p.line.name = name
                       /\ num = 0 \/ p.line.num = num
                       /\ FirstLine(lns, name, num) = p.line.val
  BY <1>1, FirstLineFound
<1>3. Good(p.line, n) /\ Filled(p.line, F) /\ (tr => OwnSim(p.line))
  BY DEF GoodLines
<1>4. num \in Sims => num # 0
  BY DEF Sims
<1>. QED BY <1>2, <1>3, <1>4 DEF Good, Filled, OwnSim, Fresh

\* So a field that is read or reset holds a value of this report,
LEMMA ResetGood ==
  ASSUME NEW lns, NEW n, NEW tr, NEW F, GoodLines(lns, n, tr, F),
         NEW name, NEW of, \A o : <<name, o>> \in Pairs => o \in of, NEW num
  PROVE  /\ Fresh(Reset(lns, name, num), of, n)
         /\ tr /\ name \in SimNames /\ num \in Sims /\ Reset(lns, name, num) # None
              => Reset(lns, name, num).sim = num
<1>1. CASE Missing(lns, name, num)
  BY <1>1 DEF Reset, Fresh
<1>2. CASE ~Missing(lns, name, num)
  <2>1. Reset(lns, name, num) = FirstLine(lns, name, num)
    BY <1>2 DEF Reset
  <2>2. /\ Fresh(FirstLine(lns, name, num), of, n)
        /\ tr /\ name \in SimNames /\ num \in Sims /\ FirstLine(lns, name, num) # None
             => FirstLine(lns, name, num).sim = num
    BY <1>2, LineRead
  <2>. QED BY <2>1, <2>2
<1>. QED BY <1>1, <1>2

\* and a field of the router's own values does too, when its line is there.
LEMMA KeepGood ==
  ASSUME NEW lns, NEW n, NEW tr, NEW F, GoodLines(lns, n, tr, F),
         NEW name \in DeviceNames, NEW of, \A o : <<name, o>> \in Pairs => o \in of, NEW old
  PROVE  LET v == Keep(old, lns, name)
         IN  /\ v = old \/ Fresh(v, of, n)
             /\ ~Missing(lns, name, 0) => Fresh(v, of, n) /\ (v = None => Blank(name, F))
<1>1. CASE Missing(lns, name, 0)
  BY <1>1 DEF Keep
<1>2. CASE ~Missing(lns, name, 0)
  <2>1. Keep(old, lns, name) = FirstLine(lns, name, 0)
    BY <1>2 DEF Keep
  <2>2. /\ Fresh(FirstLine(lns, name, 0), of, n)
        /\ FirstLine(lns, name, 0) = None => Blank(name, F)
    BY <1>2, LineRead
  <2>. QED BY <2>1, <2>2
<1>. QED BY <1>1, <1>2

\* The fields of the router's own values,
LEMMA DeviceShows ==
  ASSUME NEW lns, NEW n, NEW tr, NEW F, GoodLines(lns, n, tr, F), NEW f \in Device, NEW old
  PROVE  LET v == New(f, lns, old)
         IN  /\ v = old \/ Fresh(v, Shows[f], n)
             /\ f \in Parsed(lns) => Fresh(v, Shows[f], n) /\ (v = None => MayMiss(f, F))
<1>1. CASE f = "cMdm_sn"
  <2>1. \A o : <<"MDM_SN", o>> \in Pairs => o \in {"sn"}
    BY DEF Pairs
  <2>2. "MDM_SN" \in DeviceNames /\ Shows["cMdm_sn"] = {"sn"}
    BY DEF DeviceNames, Shows
  <2>3. "cMdm_sn" \in Parsed(lns) => ~Missing(lns, "MDM_SN", 0)
    BY DEF Parsed, DeviceKeys, VersionKeys, SimFields
  <2>4. Blank("MDM_SN", F) => MayMiss("cMdm_sn", F)
    BY DEF Blank, BlankLine, MayMiss, MayBeEmpty
  <2>. QED BY <1>1, <2>1, <2>2, <2>3, <2>4, KeepGood, NewDevice
<1>2. CASE f = "cMdm_mdl"
  <2>1. \A o : <<"MDM_MDL", o>> \in Pairs => o \in {"model", "leftover"}
    BY DEF Pairs
  <2>2. "MDM_MDL" \in DeviceNames /\ Shows["cMdm_mdl"] = {"model", "leftover"}
    BY DEF DeviceNames, Shows
  <2>3. "cMdm_mdl" \in Parsed(lns) => ~Missing(lns, "MDM_MDL", 0)
    BY DEF Parsed, DeviceKeys, VersionKeys, SimFields
  <2>4. Blank("MDM_MDL", F) => MayMiss("cMdm_mdl", F)
    BY DEF Blank, BlankLine, MayMiss, MayBeEmpty
  <2>. QED BY <1>2, <2>1, <2>2, <2>3, <2>4, KeepGood, NewDevice
<1>3. CASE f = "cMdm_mfn"
  <2>1. \A o : <<"MFN", o>> \in Pairs => o \in {"mfn"}
    BY DEF Pairs
  <2>2. "MFN" \in DeviceNames /\ Shows["cMdm_mfn"] = {"mfn"}
    BY DEF DeviceNames, Shows
  <2>3. "cMdm_mfn" \in Parsed(lns) => ~Missing(lns, "MFN", 0)
    BY DEF Parsed, DeviceKeys, VersionKeys, SimFields
  <2>4. Blank("MFN", F) => MayMiss("cMdm_mfn", F)
    BY DEF Blank, BlankLine, MayMiss, MayBeEmpty
  <2>. QED BY <1>3, <2>1, <2>2, <2>3, <2>4, KeepGood, NewDevice
<1>4. CASE f = "cVER_MDM_FMW"
  <2>1. \A o : <<"VER_MDM_FMW", o>> \in Pairs => o \in {"mdm_fmw"}
    BY DEF Pairs
  <2>2. "VER_MDM_FMW" \in DeviceNames /\ Shows["cVER_MDM_FMW"] = {"mdm_fmw"}
    BY DEF DeviceNames, Shows
  <2>3. "cVER_MDM_FMW" \in Parsed(lns) => ~Missing(lns, "VER_MDM_FMW", 0)
    BY DEF Parsed, DeviceKeys, VersionKeys, SimFields
  <2>4. Blank("VER_MDM_FMW", F) => MayMiss("cVER_MDM_FMW", F)
    BY DEF Blank, BlankLine, MayMiss, MayBeEmpty
  <2>. QED BY <1>4, <2>1, <2>2, <2>3, <2>4, KeepGood, NewDevice
<1>5. CASE f = "cVER_RTR_FMW"
  <2>1. \A o : <<"VER_RTR_FMW", o>> \in Pairs => o \in {"rtr_fmw"}
    BY DEF Pairs
  <2>2. "VER_RTR_FMW" \in DeviceNames /\ Shows["cVER_RTR_FMW"] = {"rtr_fmw"}
    BY DEF DeviceNames, Shows
  <2>3. "cVER_RTR_FMW" \in Parsed(lns) => ~Missing(lns, "VER_RTR_FMW", 0)
    BY DEF Parsed, DeviceKeys, VersionKeys, SimFields
  <2>4. Blank("VER_RTR_FMW", F) => MayMiss("cVER_RTR_FMW", F)
    BY DEF Blank, BlankLine, MayMiss, MayBeEmpty
  <2>. QED BY <1>5, <2>1, <2>2, <2>3, <2>4, KeepGood, NewDevice
<1>6. CASE f = "cVER_APP_RLS"
  <2>1. \A o : <<"VER_APP_RLS", o>> \in Pairs => o \in {"app_rls"}
    BY DEF Pairs
  <2>2. "VER_APP_RLS" \in DeviceNames /\ Shows["cVER_APP_RLS"] = {"app_rls"}
    BY DEF DeviceNames, Shows
  <2>3. "cVER_APP_RLS" \in Parsed(lns) => ~Missing(lns, "VER_APP_RLS", 0)
    BY DEF Parsed, DeviceKeys, VersionKeys, SimFields
  <2>4. Blank("VER_APP_RLS", F) => MayMiss("cVER_APP_RLS", F)
    BY DEF Blank, BlankLine, MayMiss, MayBeEmpty
  <2>. QED BY <1>6, <2>1, <2>2, <2>3, <2>4, KeepGood, NewDevice
<1>7. CASE f = "cVER_APP_INV"
  <2>1. \A o : <<"VER_APP_INV", o>> \in Pairs => o \in {"app_inv"}
    BY DEF Pairs
  <2>2. "VER_APP_INV" \in DeviceNames /\ Shows["cVER_APP_INV"] = {"app_inv"}
    BY DEF DeviceNames, Shows
  <2>3. "cVER_APP_INV" \in Parsed(lns) => ~Missing(lns, "VER_APP_INV", 0)
    BY DEF Parsed, DeviceKeys, VersionKeys, SimFields
  <2>4. Blank("VER_APP_INV", F) => MayMiss("cVER_APP_INV", F)
    BY DEF Blank, BlankLine, MayMiss, MayBeEmpty
  <2>. QED BY <1>7, <2>1, <2>2, <2>3, <2>4, KeepGood, NewDevice
<1>. QED BY <1>1, <1>2, <1>3, <1>4, <1>5, <1>6, <1>7 DEF Device

\* and those that are reset.
LEMMA ResetShows ==
  ASSUME NEW lns, NEW n, NEW tr, NEW F, GoodLines(lns, n, tr, F),
         NEW f \in Fields \ (Device \cup {"cCsq"}), NEW old
  PROVE  LET v == New(f, lns, old)
         IN  /\ Fresh(v, Shows[f], n)
             /\ tr /\ f \in DOMAIN SimOf /\ v # None => v.sim = SimOf[f]
<1>1. CASE f = "cIMSI1"
  <2>1. \A o : <<"IMSI", o>> \in Pairs => o \in {"imsi"}
    BY DEF Pairs
  <2>2. /\ Shows["cIMSI1"] = {"imsi"} /\ SimOf["cIMSI1"] = 1
        /\ "IMSI" \in SimNames /\ 1 \in Sims
    BY DEF Shows, SimOf, SimNames, Sims
  <2>3. New("cIMSI1", lns, old) = Reset(lns, "IMSI", 1)
    BY NewReset
  <2>4. /\ Fresh(New("cIMSI1", lns, old), {"imsi"}, n)
        /\ tr /\ New("cIMSI1", lns, old) # None => New("cIMSI1", lns, old).sim = 1
    BY <2>1, <2>2, <2>3, ResetGood
  <2>. QED BY <1>1, <2>2, <2>4
<1>2. CASE f = "cIMSI2"
  <2>1. \A o : <<"IMSI", o>> \in Pairs => o \in {"imsi"}
    BY DEF Pairs
  <2>2. /\ Shows["cIMSI2"] = {"imsi"} /\ SimOf["cIMSI2"] = 2
        /\ "IMSI" \in SimNames /\ 2 \in Sims
    BY DEF Shows, SimOf, SimNames, Sims
  <2>3. New("cIMSI2", lns, old) = Reset(lns, "IMSI", 2)
    BY NewReset
  <2>4. /\ Fresh(New("cIMSI2", lns, old), {"imsi"}, n)
        /\ tr /\ New("cIMSI2", lns, old) # None => New("cIMSI2", lns, old).sim = 2
    BY <2>1, <2>2, <2>3, ResetGood
  <2>. QED BY <1>2, <2>2, <2>4
<1>3. CASE f = "cCCID1"
  <2>1. \A o : <<"CCID", o>> \in Pairs => o \in {"ccid"}
    BY DEF Pairs
  <2>2. /\ Shows["cCCID1"] = {"ccid"} /\ SimOf["cCCID1"] = 1
        /\ "CCID" \in SimNames /\ 1 \in Sims
    BY DEF Shows, SimOf, SimNames, Sims
  <2>3. New("cCCID1", lns, old) = Reset(lns, "CCID", 1)
    BY NewReset
  <2>4. /\ Fresh(New("cCCID1", lns, old), {"ccid"}, n)
        /\ tr /\ New("cCCID1", lns, old) # None => New("cCCID1", lns, old).sim = 1
    BY <2>1, <2>2, <2>3, ResetGood
  <2>. QED BY <1>3, <2>2, <2>4
<1>4. CASE f = "cCCID2"
  <2>1. \A o : <<"CCID", o>> \in Pairs => o \in {"ccid"}
    BY DEF Pairs
  <2>2. /\ Shows["cCCID2"] = {"ccid"} /\ SimOf["cCCID2"] = 2
        /\ "CCID" \in SimNames /\ 2 \in Sims
    BY DEF Shows, SimOf, SimNames, Sims
  <2>3. New("cCCID2", lns, old) = Reset(lns, "CCID", 2)
    BY NewReset
  <2>4. /\ Fresh(New("cCCID2", lns, old), {"ccid"}, n)
        /\ tr /\ New("cCCID2", lns, old) # None => New("cCCID2", lns, old).sim = 2
    BY <2>1, <2>2, <2>3, ResetGood
  <2>. QED BY <1>4, <2>2, <2>4
<1>5. CASE f = "cSpn1"
  <2>1. \A o : <<"SPN", o>> \in Pairs => o \in {"spn"}
    BY DEF Pairs
  <2>2. /\ Shows["cSpn1"] = {"spn"} /\ SimOf["cSpn1"] = 1
        /\ "SPN" \in SimNames /\ 1 \in Sims
    BY DEF Shows, SimOf, SimNames, Sims
  <2>3. New("cSpn1", lns, old) = Reset(lns, "SPN", 1)
    BY NewReset
  <2>4. /\ Fresh(New("cSpn1", lns, old), {"spn"}, n)
        /\ tr /\ New("cSpn1", lns, old) # None => New("cSpn1", lns, old).sim = 1
    BY <2>1, <2>2, <2>3, ResetGood
  <2>. QED BY <1>5, <2>2, <2>4
<1>6. CASE f = "cSpn2"
  <2>1. \A o : <<"SPN", o>> \in Pairs => o \in {"spn"}
    BY DEF Pairs
  <2>2. /\ Shows["cSpn2"] = {"spn"} /\ SimOf["cSpn2"] = 2
        /\ "SPN" \in SimNames /\ 2 \in Sims
    BY DEF Shows, SimOf, SimNames, Sims
  <2>3. New("cSpn2", lns, old) = Reset(lns, "SPN", 2)
    BY NewReset
  <2>4. /\ Fresh(New("cSpn2", lns, old), {"spn"}, n)
        /\ tr /\ New("cSpn2", lns, old) # None => New("cSpn2", lns, old).sim = 2
    BY <2>1, <2>2, <2>3, ResetGood
  <2>. QED BY <1>6, <2>2, <2>4
<1>7. CASE f = "iBtp_Slt_sts"
  <2>1. \A o : <<"BTP_SLT_STS", o>> \in Pairs => o \in {"btpSlt"}
    BY DEF Pairs
  <2>2. Shows["iBtp_Slt_sts"] = {"btpSlt"} /\ "iBtp_Slt_sts" \notin DOMAIN SimOf
    BY DEF Shows, SimOf
  <2>3. New("iBtp_Slt_sts", lns, old) = Reset(lns, "BTP_SLT_STS", 0)
    BY NewReset
  <2>4. Fresh(New("iBtp_Slt_sts", lns, old), {"btpSlt"}, n)
    BY <2>1, <2>3, ResetGood
  <2>. QED BY <1>7, <2>2, <2>4
<1>8. CASE f = "cRAT1"
  <2>1. \A o : <<"SIM_RAT", o>> \in Pairs => o \in {"rat"}
    BY DEF Pairs
  <2>2. /\ Shows["cRAT1"] = {"rat"} /\ SimOf["cRAT1"] = 1
        /\ "SIM_RAT" \in SimNames /\ 1 \in Sims
    BY DEF Shows, SimOf, SimNames, Sims
  <2>3. New("cRAT1", lns, old) = Reset(lns, "SIM_RAT", 1)
    BY NewReset
  <2>4. /\ Fresh(New("cRAT1", lns, old), {"rat"}, n)
        /\ tr /\ New("cRAT1", lns, old) # None => New("cRAT1", lns, old).sim = 1
    BY <2>1, <2>2, <2>3, ResetGood
  <2>. QED BY <1>8, <2>2, <2>4
<1>9. CASE f = "cRAT2"
  <2>1. \A o : <<"SIM_RAT", o>> \in Pairs => o \in {"rat"}
    BY DEF Pairs
  <2>2. /\ Shows["cRAT2"] = {"rat"} /\ SimOf["cRAT2"] = 2
        /\ "SIM_RAT" \in SimNames /\ 2 \in Sims
    BY DEF Shows, SimOf, SimNames, Sims
  <2>3. New("cRAT2", lns, old) = Reset(lns, "SIM_RAT", 2)
    BY NewReset
  <2>4. /\ Fresh(New("cRAT2", lns, old), {"rat"}, n)
        /\ tr /\ New("cRAT2", lns, old) # None => New("cRAT2", lns, old).sim = 2
    BY <2>1, <2>2, <2>3, ResetGood
  <2>. QED BY <1>9, <2>2, <2>4
<1>10. CASE f = "cIP_ecm0"
  <2>1. \A o : <<"IP_ecm0", o>> \in Pairs => o \in {"ecm0"}
    BY DEF Pairs
  <2>2. Shows["cIP_ecm0"] = {"ecm0"} /\ "cIP_ecm0" \notin DOMAIN SimOf
    BY DEF Shows, SimOf
  <2>3. New("cIP_ecm0", lns, old) = Reset(lns, "IP_ecm0", 0)
    BY NewReset
  <2>4. Fresh(New("cIP_ecm0", lns, old), {"ecm0"}, n)
    BY <2>1, <2>3, ResetGood
  <2>. QED BY <1>10, <2>2, <2>4
<1>11. CASE f = "cIP_eth0"
  <2>1. \A o : <<"IP_eth0", o>> \in Pairs => o \in {"eth0"}
    BY DEF Pairs
  <2>2. Shows["cIP_eth0"] = {"eth0"} /\ "cIP_eth0" \notin DOMAIN SimOf
    BY DEF Shows, SimOf
  <2>3. New("cIP_eth0", lns, old) = Reset(lns, "IP_eth0", 0)
    BY NewReset
  <2>4. Fresh(New("cIP_eth0", lns, old), {"eth0"}, n)
    BY <2>1, <2>3, ResetGood
  <2>. QED BY <1>11, <2>2, <2>4
<1>12. CASE f = "cIP_eth1"
  <2>1. \A o : <<"IP_eth1", o>> \in Pairs => o \in {"eth1"}
    BY DEF Pairs
  <2>2. Shows["cIP_eth1"] = {"eth1"} /\ "cIP_eth1" \notin DOMAIN SimOf
    BY DEF Shows, SimOf
  <2>3. New("cIP_eth1", lns, old) = Reset(lns, "IP_eth1", 0)
    BY NewReset
  <2>4. Fresh(New("cIP_eth1", lns, old), {"eth1"}, n)
    BY <2>1, <2>3, ResetGood
  <2>. QED BY <1>12, <2>2, <2>4
<1>13. CASE f = "cIP_eth2"
  <2>1. \A o : <<"IP_eth2", o>> \in Pairs => o \in {"eth2"}
    BY DEF Pairs
  <2>2. Shows["cIP_eth2"] = {"eth2"} /\ "cIP_eth2" \notin DOMAIN SimOf
    BY DEF Shows, SimOf
  <2>3. New("cIP_eth2", lns, old) = Reset(lns, "IP_eth2", 0)
    BY NewReset
  <2>4. Fresh(New("cIP_eth2", lns, old), {"eth2"}, n)
    BY <2>1, <2>3, ResetGood
  <2>. QED BY <1>13, <2>2, <2>4
<1>14. CASE f = "fTemp0"
  <2>1. \A o : <<"Power_amp_tmp", o>> \in Pairs => o \in {"amp"}
    BY DEF Pairs
  <2>2. Shows["fTemp0"] = {"amp"} /\ "fTemp0" \notin DOMAIN SimOf
    BY DEF Shows, SimOf
  <2>3. New("fTemp0", lns, old) = Reset(lns, "Power_amp_tmp", 0)
    BY NewReset
  <2>4. Fresh(New("fTemp0", lns, old), {"amp"}, n)
    BY <2>1, <2>3, ResetGood
  <2>. QED BY <1>14, <2>2, <2>4
<1>15. CASE f = "fTemp1"
  <2>1. \A o : <<"Power_core_tmp", o>> \in Pairs => o \in {"core"}
    BY DEF Pairs
  <2>2. Shows["fTemp1"] = {"core"} /\ "fTemp1" \notin DOMAIN SimOf
    BY DEF Shows, SimOf
  <2>3. New("fTemp1", lns, old) = Reset(lns, "Power_core_tmp", 0)
    BY NewReset
  <2>4. Fresh(New("fTemp1", lns, old), {"core"}, n)
    BY <2>1, <2>3, ResetGood
  <2>. QED BY <1>15, <2>2, <2>4
<1>16. CASE f = "sSys_uptime"
  <2>1. \A o : <<"SYS_UPTIME", o>> \in Pairs => o \in {"uptime"}
    BY DEF Pairs
  <2>2. Shows["sSys_uptime"] = {"uptime"} /\ "sSys_uptime" \notin DOMAIN SimOf
    BY DEF Shows, SimOf
  <2>3. New("sSys_uptime", lns, old) = Reset(lns, "SYS_UPTIME", 0)
    BY NewReset
  <2>4. Fresh(New("sSys_uptime", lns, old), {"uptime"}, n)
    BY <2>1, <2>3, ResetGood
  <2>. QED BY <1>16, <2>2, <2>4
<1>17. CASE f = "sMem_info"
  <2>1. \A o : <<"MEM_INFO", o>> \in Pairs => o \in {"mem"}
    BY DEF Pairs
  <2>2. Shows["sMem_info"] = {"mem"} /\ "sMem_info" \notin DOMAIN SimOf
    BY DEF Shows, SimOf
  <2>3. New("sMem_info", lns, old) = Reset(lns, "MEM_INFO", 0)
    BY NewReset
  <2>4. Fresh(New("sMem_info", lns, old), {"mem"}, n)
    BY <2>1, <2>3, ResetGood
  <2>. QED BY <1>17, <2>2, <2>4
<1>18. CASE f = "cRtc_tm"
  <2>1. \A o : <<"RTC_TM", o>> \in Pairs => o \in {"rtc"}
    BY DEF Pairs
  <2>2. Shows["cRtc_tm"] = {"rtc"} /\ "cRtc_tm" \notin DOMAIN SimOf
    BY DEF Shows, SimOf
  <2>3. New("cRtc_tm", lns, old) = Reset(lns, "RTC_TM", 0)
    BY NewReset
  <2>4. Fresh(New("cRtc_tm", lns, old), {"rtc"}, n)
    BY <2>1, <2>3, ResetGood
  <2>. QED BY <1>18, <2>2, <2>4
<1>19. CASE f = "iNet_sts"
  <2>1. \A o : <<"NET_STS", o>> \in Pairs => o \in {"net"}
    BY DEF Pairs
  <2>2. Shows["iNet_sts"] = {"net"} /\ "iNet_sts" \notin DOMAIN SimOf
    BY DEF Shows, SimOf
  <2>3. New("iNet_sts", lns, old) = Reset(lns, "NET_STS", 0)
    BY NewReset
  <2>4. Fresh(New("iNet_sts", lns, old), {"net"}, n)
    BY <2>1, <2>3, ResetGood
  <2>. QED BY <1>19, <2>2, <2>4
<1>20. CASE f = "iPng_sts"
  <2>1. \A o : <<"PNG_STS", o>> \in Pairs => o \in {"ping"}
    BY DEF Pairs
  <2>2. Shows["iPng_sts"] = {"ping"} /\ "iPng_sts" \notin DOMAIN SimOf
    BY DEF Shows, SimOf
  <2>3. New("iPng_sts", lns, old) = Reset(lns, "PNG_STS", 0)
    BY NewReset
  <2>4. Fresh(New("iPng_sts", lns, old), {"ping"}, n)
    BY <2>1, <2>3, ResetGood
  <2>. QED BY <1>20, <2>2, <2>4
<1>21. CASE f = "iActv_sim_slt"
  <2>1. \A o : <<"ACTV_SIM_SLT", o>> \in Pairs => o \in {"slot"}
    BY DEF Pairs
  <2>2. Shows["iActv_sim_slt"] = {"slot"} /\ "iActv_sim_slt" \notin DOMAIN SimOf
    BY DEF Shows, SimOf
  <2>3. New("iActv_sim_slt", lns, old) = Reset(lns, "ACTV_SIM_SLT", 0)
    BY NewReset
  <2>4. Fresh(New("iActv_sim_slt", lns, old), {"slot"}, n)
    BY <2>1, <2>3, ResetGood
  <2>. QED BY <1>21, <2>2, <2>4
<1>22. CASE f = "iActv_Slt_sts"
  <2>1. \A o : <<"ACTV_SLT_STS", o>> \in Pairs => o \in {"sltSts"}
    BY DEF Pairs
  <2>2. Shows["iActv_Slt_sts"] = {"sltSts"} /\ "iActv_Slt_sts" \notin DOMAIN SimOf
    BY DEF Shows, SimOf
  <2>3. New("iActv_Slt_sts", lns, old) = Reset(lns, "ACTV_SLT_STS", 0)
    BY NewReset
  <2>4. Fresh(New("iActv_Slt_sts", lns, old), {"sltSts"}, n)
    BY <2>1, <2>3, ResetGood
  <2>. QED BY <1>22, <2>2, <2>4
<1>23. CASE f = "sRst_Time"
  <2>1. \A o : <<"RST_TIME", o>> \in Pairs => o \in {"rst"}
    BY DEF Pairs
  <2>2. Shows["sRst_Time"] = {"rst"} /\ "sRst_Time" \notin DOMAIN SimOf
    BY DEF Shows, SimOf
  <2>3. New("sRst_Time", lns, old) = Reset(lns, "RST_TIME", 0)
    BY NewReset
  <2>4. Fresh(New("sRst_Time", lns, old), {"rst"}, n)
    BY <2>1, <2>3, ResetGood
  <2>. QED BY <1>23, <2>2, <2>4
<1>. QED
  BY <1>1, <1>2, <1>3, <1>4, <1>5, <1>6, <1>7, <1>8, <1>9, <1>10, <1>11, <1>12, <1>13, <1>14, <1>15, <1>16, <1>17, <1>18, <1>19, <1>20, <1>21, <1>22, <1>23
     DEF Fields, BootFields, PeriodicFields, Device, SimFields, Ips, Rats, States

\* The signal quality is of the right quantity too.
LEMMA CsqShows ==
  ASSUME NEW lns, NEW n, NEW tr, NEW F, GoodLines(lns, n, tr, F), NEW old
  PROVE  New("cCsq", lns, old) = old \/ Fresh(New("cCsq", lns, old), {"csq"}, n)
<1>1. CASE New("cCsq", lns, old) \in {None, old}
  BY <1>1 DEF Fresh
<1>2. CASE ~Missing(lns, "CSQ", 0) /\ New("cCsq", lns, old) = FirstLine(lns, "CSQ", 0)
  <2>1. \A o : <<"CSQ", o>> \in Pairs => o \in {"csq"}
    BY DEF Pairs
  <2>2. Fresh(FirstLine(lns, "CSQ", 0), {"csq"}, n)
    BY <1>2, <2>1, LineRead
  <2>. QED BY <1>2, <2>2
<1>. QED BY <1>1, <1>2, NewCsq

----------------------------------------------------------------------------
(* The records.                                                            *)

LEMMA Disjoint ==
  /\ BootFields \cap PeriodicFields = {} /\ Device \subseteq BootFields
  /\ "cCsq" \in PeriodicFields /\ DOMAIN SimOf \cap (Device \cup {"cCsq"}) = {}
  /\ DOMAIN SimOf \subseteq Fields
<1>1. BootFields \cap PeriodicFields = {}
  BY DEF BootFields, PeriodicFields, Device, SimFields, Ips, Rats, States
<1>2. Device \subseteq BootFields /\ "cCsq" \in PeriodicFields
  BY DEF BootFields, PeriodicFields
<1>3. DOMAIN SimOf \cap (Device \cup {"cCsq"}) = {}
  BY DEF SimOf, Device
<1>4. DOMAIN SimOf \subseteq Fields
  BY DEF SimOf, Fields, BootFields, PeriodicFields, SimFields, Rats
<1>. QED BY <1>1, <1>2, <1>3, <1>4

\* The places of the functions in the table of the parser.
LEMMA Places ==
  /\ \A f \in BootFields : prs_mdm_init[f] \in 0..13
  /\ \A f \in PeriodicFields : prs_mdm_init[f] >= 14
<1>1. \A f \in BootFields : prs_mdm_init[f] \in 0..13
  BY DEF BootFields, Device, SimFields, prs_mdm_init
<1>2. \A f \in PeriodicFields : prs_mdm_init[f] >= 14
  BY DEF PeriodicFields, Ips, Rats, States, prs_mdm_init
<1>. QED BY <1>1, <1>2

\* A boot report changes the boot fields only; each is read from it, or is one
\* of the router's own and keeps its value.
LEMMA BootStep ==
  ASSUME NEW lns, NEW n, NEW tr, NEW F, GoodLines(lns, n, tr, F), NEW rec, NEW f \in Fields
  PROVE  LET v == BootRecord(lns, rec)[f]
         IN  /\ f \in PeriodicFields => v = rec[f]
             /\ f \in Device => /\ v = rec[f] \/ Fresh(v, Shows[f], n)
                                /\ f \in Parsed(lns) => Fresh(v, Shows[f], n) /\ (v = None => MayMiss(f, F))
             /\ f \in BootFields \ Device =>
                  /\ Fresh(v, Shows[f], n)
                  /\ tr /\ f \in DOMAIN SimOf /\ v # None => v.sim = SimOf[f]
<1>. DEFINE v == BootRecord(lns, rec)[f]
<1>1. v = IF PRS_TYP_BTP = Typ(f) THEN New(f, lns, rec[f]) ELSE rec[f]
  BY DEF BootRecord, f_prs_mdm
<1>2. f \in PeriodicFields => v = rec[f]
  BY <1>1, Disjoint DEF Typ, PRS_TYP_BTP, PRS_TYP_PRD
<1>3. f \in BootFields => v = New(f, lns, rec[f])
  BY <1>1 DEF Typ
<1>4. ASSUME f \in Device
      PROVE  /\ v = rec[f] \/ Fresh(v, Shows[f], n)
             /\ f \in Parsed(lns) => Fresh(v, Shows[f], n) /\ (v = None => MayMiss(f, F))
  BY <1>3, <1>4, Disjoint, DeviceShows
<1>5. ASSUME f \in BootFields \ Device
      PROVE  /\ Fresh(v, Shows[f], n)
             /\ tr /\ f \in DOMAIN SimOf /\ v # None => v.sim = SimOf[f]
  <2>1. f \in Fields \ (Device \cup {"cCsq"})
    BY <1>5, Disjoint
  <2>2. v = New(f, lns, rec[f])
    BY <1>3, <1>5
  <2>. HIDE DEF v
  <2>. QED BY <2>1, <2>2, ResetShows
<1>. QED BY <1>2, <1>4, <1>5

\* A periodic report changes the periodic fields only, and reads them all.
LEMMA PeriodicStep ==
  ASSUME NEW lns, NEW n, NEW tr, NEW F, GoodLines(lns, n, tr, F), NEW rec, NEW f \in Fields
  PROVE  LET v == PeriodicRecord(lns, rec)[f]
         IN  /\ f \in BootFields => v = rec[f]
             /\ f = "cCsq" => v = rec[f] \/ Fresh(v, Shows[f], n)
             /\ f \in PeriodicFields \ {"cCsq"} =>
                  /\ Fresh(v, Shows[f], n)
                  /\ tr /\ f \in DOMAIN SimOf /\ v # None => v.sim = SimOf[f]
<1>. DEFINE v == PeriodicRecord(lns, rec)[f]
<1>1. v = IF prs_mdm_init[f] >= 12 /\ PRS_TYP_PRD = Typ(f) THEN New(f, lns, rec[f]) ELSE rec[f]
  BY DEF PeriodicRecord, f_prs_mdm
<1>2. f \in BootFields => v = rec[f]
  BY <1>1 DEF Typ, PRS_TYP_BTP, PRS_TYP_PRD
<1>3. f \in PeriodicFields => v = New(f, lns, rec[f])
  <2>. SUFFICES ASSUME f \in PeriodicFields PROVE v = New(f, lns, rec[f])
    OBVIOUS
  <2>1. Typ(f) = PRS_TYP_PRD
    BY Disjoint DEF Typ
  <2>2. prs_mdm_init[f] >= 14 /\ prs_mdm_init[f] \in Int
    BY Places DEF PeriodicFields, Ips, Rats, States, prs_mdm_init
  <2>. QED BY <1>1, <2>1, <2>2
<1>. HIDE DEF v
<1>4. ASSUME f = "cCsq" PROVE v = rec[f] \/ Fresh(v, Shows[f], n)
  <2>1. Shows["cCsq"] = {"csq"}
    BY DEF Shows
  <2>2. v = New("cCsq", lns, rec[f])
    BY <1>3, <1>4, Disjoint
  <2>. QED BY <1>4, <2>1, <2>2, CsqShows
<1>5. ASSUME f \in PeriodicFields \ {"cCsq"}
      PROVE  /\ Fresh(v, Shows[f], n)
             /\ tr /\ f \in DOMAIN SimOf /\ v # None => v.sim = SimOf[f]
  <2>1. f \in Fields \ (Device \cup {"cCsq"})
    BY <1>5, Disjoint
  <2>2. v = New(f, lns, rec[f])
    BY <1>3, <1>5
  <2>. QED BY <2>1, <2>2, ResetShows
<1>. QED BY <1>2, <1>4, <1>5 DEF v

\* The fields of a boot report are fourteen: the places of their functions are 0 to 13.
LEMMA Fourteen ==
  IsFiniteSet(BootFields) /\ Cardinality(BootFields) = 14
<1>. DEFINE g == [f \in BootFields |-> prs_mdm_init[f]]
<1>1. \A a, b \in BootFields : prs_mdm_init[a] = prs_mdm_init[b] => a = b
  BY DEF BootFields, Device, SimFields, prs_mdm_init
<1>2. \A n \in 0..13 : \E f \in BootFields : prs_mdm_init[f] = n
  BY DEF BootFields, Device, SimFields, prs_mdm_init
<1>3. g \in [BootFields -> 0..13]
  BY Places
<1>4. g \in Injection(BootFields, 0..13)
  <2>1. \A a, b \in BootFields : g[a] = g[b] => a = b
    BY <1>1
  <2>. QED BY <1>3, <2>1 DEF Injection, IsInjective
<1>5. g \in Surjection(BootFields, 0..13)
  BY <1>2, <1>3 DEF Surjection
<1>. HIDE DEF g
<1>6. IsFiniteSet(0..13) /\ Cardinality(0..13) = 14
  <2>1. IsFiniteSet(0..13) /\ Cardinality(0..13) = IF 0 > 13 THEN 0 ELSE 13 - 0 + 1
    <3>1. 0 \in Int /\ 13 \in Int
      OBVIOUS
    <3>. QED BY <3>1, FS_Interval, Zenon
  <2>. QED BY <2>1
<1>7. IsFiniteSet(BootFields)
  BY <1>4, <1>6, FS_Injection
<1>. QED BY <1>4, <1>5, <1>6, <1>7, FS_Surjection

\* get_btp_rcrd returns 0 only when every one of the router's own values has
\* been found: its count reaches BTP_PRM_CNT with no function left out.
LEMMA CountsAll ==
  ASSUME NEW lns, get_btp_rcrd(lns) = 0
  PROVE  Device \subseteq Parsed(lns)
<1>1. IsFiniteSet(BootFields) /\ Cardinality(BootFields) <= 14
  BY Fourteen
<1>2. Parsed(lns) \subseteq BootFields
  BY DEF Parsed, BootFields, Device, DeviceKeys, VersionKeys
<1>3. Cardinality(Parsed(lns)) = 14
  BY DEF get_btp_rcrd, BTP_PRM_CNT
<1>4. ASSUME NEW f \in Device, f \notin Parsed(lns) PROVE FALSE
  <2>1. Parsed(lns) \subseteq BootFields \ {f} /\ f \in BootFields
    BY <1>2, <1>4, Disjoint
  <2>2. IsFiniteSet(BootFields \ {f}) /\ Cardinality(BootFields \ {f}) = Cardinality(BootFields) - 1
    BY <1>1, <2>1, FS_RemoveElement
  <2>3. Cardinality(Parsed(lns)) <= Cardinality(BootFields \ {f})
    BY <2>1, <2>2, FS_Subset
  <2>4. Cardinality(BootFields) \in Nat
    BY <1>1, FS_CardinalityType
  <2>. QED BY <1>1, <1>3, <2>2, <2>3, <2>4
<1>. QED BY <1>4

----------------------------------------------------------------------------
(* The inductive invariant.                                                *)

\* The reads that can fail are finitely many.
LEMMA FiniteMisses ==
  ASSUME NEW F, F \subseteq AnyRead, NEW file
  PROVE  Cost(F, file) \in Nat
<1>1. IsFiniteSet(PackFunctions)
  <2>1. \A a, b \in PackFunctions : pack_func_init[a] = pack_func_init[b] => a = b
    BY DEF PackFunctions, pack_func_init
  <2>2. pack_func_init \in [PackFunctions -> 0..19]
    BY DEF PackFunctions, pack_func_init
  <2>3. pack_func_init \in Injection(PackFunctions, 0..19)
    BY <2>1, <2>2 DEF Injection, IsInjective
  <2>4. IsFiniteSet(0..19)
    <3>1. 0 \in Int /\ 19 \in Int
      OBVIOUS
    <3>. QED BY <3>1, FS_Interval
  <2>. QED BY <2>3, <2>4, FS_Injection
<1>2. IsFiniteSet(AnyRead)
  <2>. DEFINE a == {"no_sn"}
              b == a \cup {"no_model"}
              c == b \cup {"other_model"}
              d == c \cup {"no_mdm_fmw"}
              e == d \cup {"no_app_rls"}
  <2>1. DOMAIN Slips = e
    BY DEF Slips
  <2>2. IsFiniteSet(DOMAIN Slips)
    <3>1. IsFiniteSet(a)
      BY FS_Singleton
    <3>2. IsFiniteSet(b)
      <4>. HIDE DEF a
      <4>. QED BY <3>1, FS_AddElement
    <3>3. IsFiniteSet(c)
      <4>. HIDE DEF b
      <4>. QED BY <3>2, FS_AddElement
    <3>4. IsFiniteSet(d)
      <4>. HIDE DEF c
      <4>. QED BY <3>3, FS_AddElement
    <3>5. IsFiniteSet(e)
      <4>. HIDE DEF d
      <4>. QED BY <3>4, FS_AddElement
    <3>. QED BY <2>1, <3>5
  <2>. QED BY <1>1, <2>2, FS_Union DEF AnyRead
<1>3. IsFiniteSet(F)
  BY <1>2, FS_Subset
<1>4. Cardinality(F) \in Nat
  BY <1>3, FS_CardinalityType
<1>. QED BY <1>4 DEF Cost

\* Lines stay good when more is missed, or when another label is wrong.
LEMMA GoodMore ==
  ASSUME NEW lns, NEW n, NEW s, NEW t, NEW F, NEW G,
         GoodLines(lns, n, s, F), F \subseteq G, t => s
  PROVE  GoodLines(lns, n, t, G)
<1>1. \A l : Filled(l, F) => Filled(l, G)
  BY DEF Filled, Blank
<1>. QED BY <1>1 DEF GoodLines

LEMMA InitInv == Init => IInv
<1>. SUFFICES ASSUME Init PROVE IInv
  OBVIOUS
<1>1. TypeOK
  BY MaxReportsAssumption, MaxMissesAssumption DEF Init, TypeOK, PRS_TYP_BTP, NoRecord
<1>2. LinesInv
  BY DEF Init, LinesInv, GoodLines
<1>3. \A f \in Fields : record[f] = None
  BY DEF Init, NoRecord
<1>4. RightField /\ OneReport
  BY <1>3 DEF RightField, OneReport, Fields
<1>5. RightSim
  BY <1>3, Disjoint DEF RightSim
<1>6. WholeBoot
  BY DEF Init, WholeBoot, PRS_TYP_BTP, PRS_TYP_PRD
<1>. QED BY <1>1, <1>2, <1>4, <1>5, <1>6 DEF IInv

\* A step of the router writes good lines and leaves the record alone.
LEMMA RouterStep ==
  ASSUME IInv, UNCHANGED device, TypeOK', LinesInv', truthful' => truthful
  PROVE  IInv'
<1>1. RightField' /\ OneReport' /\ WholeBoot'
  BY DEF IInv, device, RightField, OneReport, WholeBoot
<1>2. RightSim'
  BY DEF IInv, device, RightSim
<1>. QED BY <1>1, <1>2 DEF IInv

LEMMA SettingsOK ==
  ASSUME NEW sim \in Sims, NEW file \in Labels, NEW n \in 0..MaxReports
  PROVE  [sim |-> sim, file |-> file, at |-> n] \in Settings
BY DEF Settings

LEMMA StepInv == IInv /\ [Next]_vars => IInv'
<1>. SUFFICES ASSUME IInv, [Next]_vars PROVE IInv'
  OBVIOUS
<1>. USE MaxReportsAssumption, MaxMissesAssumption
<1>1. ASSUME BtupFirst PROVE IInv'
  <2>1. PICK sim \in Sims, file \in Labels : \E F \in Misses(BTUP, file) :
          LET r == [sim |-> sim, file |-> file, at |-> at + 1]
          IN  /\ out' = Section(0, F, r, BTUP)
              /\ Miss(F, file)
              /\ truthful' = (truthful /\ Truthful(r, BTUP))
    BY <1>1 DEF BtupFirst
  <2>. DEFINE r == [sim |-> sim, file |-> file, at |-> at + 1]
  <2>2. PICK F \in Misses(BTUP, file) : /\ out' = Section(0, F, r, BTUP)
                                       /\ Miss(F, file)
                                       /\ truthful' = (truthful /\ Truthful(r, BTUP))
    BY <2>1
  <2>3. at + 1 \in 0..MaxReports /\ r \in Settings /\ at' = at + 1
    BY <1>1, SettingsOK DEF IInv, TypeOK, BtupFirst
  <2>4. LinesInv'
    <3>1. GoodLines(out', r.at, Truthful(r, BTUP), F)
      BY <2>2, <2>3, SectionGood
    <3>2. F \subseteq missed'
      BY <2>2 DEF Miss
    <3>. QED BY <2>2, <2>3, <3>1, <3>2, GoodMore DEF LinesInv
  <2>5. F \subseteq AnyRead /\ misses + Cost(F, file) <= MaxMisses
    BY DEF Misses, Failures, Reads, AnyRead
  <2>6. TypeOK'
    BY <1>1, <2>2, <2>3, <2>5, FiniteMisses DEF IInv, TypeOK, BtupFirst, device, Miss
  <2>. QED BY <1>1, <2>2, <2>4, <2>6, RouterStep DEF BtupFirst
<1>2. ASSUME BtupSecond PROVE IInv'
  <2>1. PICK file \in Labels, typ \in {SIM, SIM + FILL} : \E F \in Misses(SIM, file) :
          LET r == [sim |-> 2, file |-> file, at |-> at]
          IN  /\ out' = out \cup Section(sz_packFn, F, r, typ) \cup {SlotLine(r)}
              /\ Miss(F, file)
              /\ truthful' = (truthful /\ Truthful(r, typ))
    BY <1>2 DEF BtupSecond
  <2>. DEFINE r == [sim |-> 2, file |-> file, at |-> at]
  <2>2. PICK F \in Misses(SIM, file) :
          /\ out' = out \cup Section(sz_packFn, F, r, typ) \cup {SlotLine(r)}
          /\ Miss(F, file)
          /\ truthful' = (truthful /\ Truthful(r, typ))
    BY <2>1
  <2>3. r \in Settings /\ at' = at
    BY <1>2, SettingsOK DEF IInv, TypeOK, BtupSecond, Sims
  <2>4. LinesInv'
    <3>1. GoodLines(Section(sz_packFn, F, r, typ), at, Truthful(r, typ), F)
      BY <2>3, SectionGood DEF sz_packFn
    <3>2. GoodLines({SlotLine(r)}, at, TRUE, F)
      <4>1. <<"BTP_SLT_STS", "btpSlt">> \in Pairs
        BY DEF Pairs
      <4>2. "BTP_SLT_STS" \notin DeviceNames /\ "BTP_SLT_STS" \notin SimNames
        BY DEF DeviceNames, SimNames
      <4>. QED BY <4>1, <4>2 DEF GoodLines, SlotLine, Line, Value, sz_packFn, Good, Filled, OwnSim, None
    <3>3. GoodLines(out, at, truthful, missed)
      BY DEF IInv, LinesInv
    <3>. HIDE DEF r
    <3>4. \A p \in out' : p \in out \/ p \in Section(sz_packFn, F, r, typ) \/ p \in {SlotLine(r)}
      BY <2>2
    <3>5. F \subseteq missed' /\ missed \subseteq missed'
      BY <2>2 DEF Miss
    <3>6. /\ GoodLines(Section(sz_packFn, F, r, typ), at', truthful', missed')
          /\ GoodLines({SlotLine(r)}, at', truthful', missed')
          /\ GoodLines(out, at', truthful', missed')
      BY <2>2, <2>3, <3>1, <3>2, <3>3, <3>5, GoodMore
    <3>. QED BY <3>4, <3>6 DEF LinesInv, GoodLines
  <2>5. F \subseteq AnyRead /\ misses + Cost(F, file) <= MaxMisses
    BY DEF Misses, Failures, Reads, AnyRead
  <2>6. TypeOK'
    BY <1>2, <2>2, <2>3, <2>5, FiniteMisses DEF IInv, TypeOK, BtupSecond, device, Miss
  <2>. QED BY <1>2, <2>2, <2>4, <2>6, RouterStep DEF BtupSecond
<1>3. ASSUME PktPrd PROVE IInv'
  <2>1. PICK sim \in Sims, file \in Labels : \E F \in Misses(PRD, file) :
          LET r == [sim |-> sim, file |-> file, at |-> at + 1]
          IN  /\ out' = Section(0, F, r, PRD)
              /\ Miss(F, file)
              /\ truthful' = (truthful /\ Truthful(r, PRD))
    BY <1>3 DEF PktPrd
  <2>. DEFINE r == [sim |-> sim, file |-> file, at |-> at + 1]
  <2>2. PICK F \in Misses(PRD, file) : /\ out' = Section(0, F, r, PRD)
                                      /\ Miss(F, file)
                                      /\ truthful' = (truthful /\ Truthful(r, PRD))
    BY <2>1
  <2>3. at + 1 \in 0..MaxReports /\ r \in Settings /\ at' = at + 1
    BY <1>3, SettingsOK DEF IInv, TypeOK, PktPrd
  <2>4. LinesInv'
    <3>1. GoodLines(out', r.at, Truthful(r, PRD), F)
      BY <2>2, <2>3, SectionGood
    <3>2. F \subseteq missed'
      BY <2>2 DEF Miss
    <3>. QED BY <2>2, <2>3, <3>1, <3>2, GoodMore DEF LinesInv
  <2>5. F \subseteq AnyRead /\ misses + Cost(F, file) <= MaxMisses
    BY DEF Misses, Failures, Reads, AnyRead
  <2>6. TypeOK'
    BY <1>3, <2>2, <2>3, <2>5, FiniteMisses DEF IInv, TypeOK, PktPrd, device, Miss
  <2>. QED BY <1>3, <2>2, <2>4, <2>6, RouterStep DEF PktPrd
<1>4. ASSUME Lose PROVE IInv'
  <2>1. TypeOK'
    BY <1>4 DEF IInv, TypeOK, Lose, Done, device
  <2>2. LinesInv'
    BY <1>4 DEF Lose, Done, LinesInv, GoodLines
  <2>. QED BY <1>4, <2>1, <2>2, RouterStep DEF Lose, Done
<1>5. ASSUME DeviceRestart PROVE IInv'
  <2>1. TypeOK'
    BY <1>5 DEF IInv, TypeOK, DeviceRestart, router, NoRecord
  <2>2. LinesInv'
    BY <1>5 DEF IInv, DeviceRestart, router, LinesInv
  <2>3. \A f \in Fields : record'[f] = None
    BY <1>5 DEF DeviceRestart, NoRecord
  <2>4. (RightField /\ OneReport)'
    BY <2>3 DEF RightField, OneReport, Fields
  <2>5. RightSim'
    BY <2>3, Disjoint DEF RightSim
  <2>6. WholeBoot'
    BY <1>5 DEF DeviceRestart, WholeBoot, PRS_TYP_BTP, PRS_TYP_PRD
  <2>. QED BY <2>1, <2>2, <2>4, <2>5, <2>6 DEF IInv
<1>6. ASSUME Done, ReadBoot PROVE IInv'
  <2>. DEFINE new == BootRecord(out, record)
  <2>1. TypeOK'
    BY <1>6 DEF IInv, TypeOK, Done, ReadBoot, BootRecord, PRS_TYP_PRD
  <2>2. LinesInv'
    BY <1>6 DEF Done, LinesInv, GoodLines
  <2>3. CASE pkt # PRS_TYP_BTP
    BY <1>6, <2>1, <2>2, <2>3 DEF IInv, Done, ReadBoot, RightField, RightSim, WholeBoot, OneReport
  <2>4. CASE pkt = PRS_TYP_BTP
    <3>1. record' = new /\ UNCHANGED <<last, truthful>>
      BY <1>6, <2>4 DEF ReadBoot, Done
    <3>2. GoodLines(out, at, truthful, missed)
      BY DEF IInv, LinesInv
    <3>3. \A f \in Fields :
            /\ f \in PeriodicFields => new[f] = record[f]
            /\ f \in Device => /\ new[f] = record[f] \/ Fresh(new[f], Shows[f], at)
                               /\ f \in Parsed(out) => /\ Fresh(new[f], Shows[f], at)
                                                       /\ new[f] = None => MayMiss(f, missed)
            /\ f \in BootFields \ Device =>
                 /\ Fresh(new[f], Shows[f], at)
                 /\ truthful /\ f \in DOMAIN SimOf /\ new[f] # None => new[f].sim = SimOf[f]
      BY <3>2, BootStep
    <3>. HIDE DEF new
    <3>4. RightField'
      BY <3>1, <3>3 DEF IInv, RightField, Fields, Fresh
    <3>5. RightSim'
      BY <3>1, <3>3, Disjoint DEF IInv, RightSim, Fields
    <3>6. OneReport'
      BY <3>1, <3>3 DEF IInv, OneReport, Fields
    <3>7. WholeBoot'
      <4>1. CASE get_btp_rcrd(out) = 0
        <5>1. whole' = at /\ lacking' = missed \cap DOMAIN Slips /\ Device \subseteq Parsed(out)
          BY <1>6, <2>4, <4>1, CountsAll DEF ReadBoot
        <5>2. \A f \in BootFields :
                /\ Fresh(new[f], Shows[f], at)
                /\ f \in Device /\ new[f] = None => MayMiss(f, missed)
          <6>. SUFFICES ASSUME NEW f \in BootFields
                        PROVE  /\ Fresh(new[f], Shows[f], at)
                               /\ f \in Device /\ new[f] = None => MayMiss(f, missed)
            OBVIOUS
          <6>1. f \in Fields
            BY DEF Fields
          <6>2. CASE f \in Device
            <7>1. f \in Parsed(out)
              BY <5>1, <6>2
            <7>2. /\ Fresh(new[f], Shows[f], at)
                  /\ new[f] = None => MayMiss(f, missed)
              BY <3>3, <6>1, <6>2, <7>1, Zenon
            <7>. QED BY <7>2
          <6>3. CASE f \notin Device
            BY <3>3, <6>1, <6>3
          <6>. QED BY <6>2, <6>3
        <5>3. \A f \in DOMAIN MayBeEmpty : MayBeEmpty[f] \in DOMAIN Slips
          BY DEF MayBeEmpty, Slips
        <5>4. \A f \in Device : record'[f] = None =>
                f \in DOMAIN MayBeEmpty /\ MayBeEmpty[f] \in lacking'
          BY <3>1, <5>1, <5>2, <5>3, Disjoint DEF MayMiss
        <5>5. \A f \in BootFields : record'[f] # None => record'[f].at = whole'
          BY <3>1, <5>1, <5>2 DEF Fresh
        <5>. QED BY <5>4, <5>5 DEF WholeBoot
      <4>2. CASE get_btp_rcrd(out) # 0
        BY <1>6, <2>4, <4>2 DEF ReadBoot, WholeBoot, PRS_TYP_BTP, PRS_TYP_PRD
      <4>. QED BY <4>1, <4>2
    <3>. QED BY <2>1, <2>2, <3>4, <3>5, <3>6, <3>7 DEF IInv
  <2>. QED BY <2>3, <2>4
<1>7. ASSUME Done, ReadPeriodic PROVE IInv'
  <2>. DEFINE new == PeriodicRecord(out, record)
  <2>1. TypeOK'
    BY <1>7 DEF IInv, TypeOK, Done, ReadPeriodic, PeriodicRecord
  <2>2. LinesInv'
    BY <1>7 DEF Done, LinesInv, GoodLines
  <2>3. CASE pkt # PRS_TYP_PRD
    BY <1>7, <2>1, <2>2, <2>3 DEF IInv, Done, ReadPeriodic, RightField, RightSim, WholeBoot, OneReport
  <2>4. CASE pkt = PRS_TYP_PRD
    <3>1. record' = new /\ last' = at /\ UNCHANGED <<prs_typ, whole, lacking, truthful>>
      BY <1>7, <2>4 DEF ReadPeriodic, Done
    <3>2. GoodLines(out, at, truthful, missed)
      BY DEF IInv, LinesInv
    <3>3. \A f \in Fields :
            /\ f \in BootFields => new[f] = record[f]
            /\ f = "cCsq" => new[f] = record[f] \/ Fresh(new[f], Shows[f], at)
            /\ f \in PeriodicFields \ {"cCsq"} =>
                 /\ Fresh(new[f], Shows[f], at)
                 /\ truthful /\ f \in DOMAIN SimOf /\ new[f] # None => new[f].sim = SimOf[f]
      BY <3>2, PeriodicStep
    <3>. HIDE DEF new
    <3>4. RightField'
      BY <3>1, <3>3 DEF IInv, RightField, Fields, Fresh
    <3>5. RightSim'
      BY <3>1, <3>3, Disjoint DEF IInv, RightSim, Fields
    <3>6. OneReport'
      BY <3>1, <3>3 DEF OneReport, Fields, Fresh
    <3>7. WholeBoot'
      BY <3>1, <3>3, Disjoint DEF IInv, WholeBoot, Fields
    <3>. QED BY <2>1, <2>2, <3>4, <3>5, <3>6, <3>7 DEF IInv
  <2>. QED BY <2>3, <2>4
<1>8. ASSUME UNCHANGED vars PROVE IInv'
  <2>1. TypeOK'
    BY <1>8 DEF IInv, TypeOK, vars, router, device
  <2>2. LinesInv' /\ UNCHANGED <<device, truthful>>
    BY <1>8 DEF IInv, LinesInv, vars, router, device
  <2>. QED BY <2>1, <2>2, RouterStep
<1>. QED BY <1>1, <1>2, <1>3, <1>4, <1>5, <1>6, <1>7, <1>8 DEF Next, Receive

\* The inductive invariant holds in every reachable state of the program.
THEOREM Invariance == Spec => []IInv
  BY InitInv, StepInv, PTL DEF Spec

\* The types hold.
THEOREM TypeCorrect == Spec => []TypeOK
  BY Invariance, PTL DEF IInv

\* No field ever holds a value of another quantity, but for the text that
\* mdm_get_model may find in the memory left over to it.
THEOREM FieldsAreRight == Spec => []RightField
  BY Invariance, PTL DEF IInv

\* A value of a SIM is stored under that SIM while the labels are true.
THEOREM SimsAreRight == Spec => []RightSim
  BY Invariance, PTL DEF IInv

\* A device that reads periodic reports has the router's own values and those of the
\* SIMs from one boot report, the one it accepted, and lacks none of the router's own
\* but those whose line came without a value.
THEOREM BootIsWhole == Spec => []WholeBoot
  BY Invariance, PTL DEF IInv

\* The periodic fields are of one report.
THEOREM PeriodicIsOne == Spec => []OneReport
  BY Invariance, PTL DEF IInv

----------------------------------------------------------------------------
(* What the router could read is accepted.                                 *)

\* The pack function of each line of the router itself.
Packer ==
  [MDM_SN |-> "sn", MDM_MDL |-> "model", MFN |-> "mfn", VER_MDM_FMW |-> "fmwv",
   VER_RTR_FMW |-> "fmwv", VER_APP_RLS |-> "fmwv", VER_APP_INV |-> "fmwv"]

\* A boot report has the lines of every function whose value could be read, from the
\* first section on.
ReadInv ==
  pkt = PRS_TYP_BTP /\ pc # "idle" =>
    \A name \in DeviceNames : Packer[name] \notin missed => ~Missing(out, name, 0)

LEMMA ALine ==
  ASSUME NEW got, NEW name, NEW of, NEW r
  PROVE  \E l \in Written(TRUE, got, name, of, r) : l.name = name
<1>1. Line(name, 0, IF got THEN Value(of, r) ELSE None) \in Written(TRUE, got, name, of, r)
  BY DEF Written
<1>. QED BY <1>1 DEF Line

\* Each function writes its lines.
LEMMA PackWrites ==
  ASSUME NEW F, NEW r, NEW name \in DeviceNames, Packer[name] \notin F
  PROVE  \E l \in f_pack(Packer[name], F, r, BTUP) : l.name = name
<1>1. CASE name = "MDM_SN"
  <2>. DEFINE got == "no_sn" \notin F
  <2>1. Packer[name] = "sn"
    BY <1>1 DEF Packer
  <2>2. f_pack("sn", F, r, BTUP) = Written(TRUE, got, "MDM_SN", "sn", r)
    BY <2>1 DEF f_pack, pack_mdm_sn
  <2>. HIDE DEF got
  <2>3. PICK l \in Written(TRUE, got, "MDM_SN", "sn", r) : l.name = "MDM_SN"
    BY ALine
  <2>4. l \in f_pack(Packer[name], F, r, BTUP)
    BY <2>1, <2>2, <2>3, Zenon
  <2>. QED BY <1>1, <2>3, <2>4, Zenon
<1>2. CASE name = "MDM_MDL"
  <2>. DEFINE got == "no_model" \notin F
  <2>1. Packer[name] = "model"
    BY <1>2 DEF Packer
  <2>2. PICK of : f_pack("model", F, r, BTUP) = Written(TRUE, got, "MDM_MDL", of, r)
    BY <2>1 DEF f_pack, pack_mdm_model
  <2>. HIDE DEF got
  <2>3. PICK l \in Written(TRUE, got, "MDM_MDL", of, r) : l.name = "MDM_MDL"
    BY ALine
  <2>4. l \in f_pack(Packer[name], F, r, BTUP)
    BY <2>1, <2>2, <2>3, Zenon
  <2>. QED BY <1>2, <2>3, <2>4, Zenon
<1>3. CASE name = "MFN"
  <2>1. Packer[name] = "mfn"
    BY <1>3 DEF Packer
  <2>2. f_pack("mfn", F, r, BTUP) = Written(TRUE, TRUE, "MFN", "mfn", r)
    BY <2>1 DEF f_pack, pack_mdm_mfn, IfRead
  <2>3. PICK l \in Written(TRUE, TRUE, "MFN", "mfn", r) : l.name = "MFN"
    BY ALine
  <2>4. l \in f_pack(Packer[name], F, r, BTUP)
    BY <2>1, <2>2, <2>3, Zenon
  <2>. QED BY <1>3, <2>3, <2>4, Zenon
<1>4. CASE name \in {"VER_MDM_FMW", "VER_RTR_FMW", "VER_APP_RLS", "VER_APP_INV"}
  <2>. DEFINE fmw == "no_mdm_fmw" \notin F
              rls == "no_app_rls" \notin F
  <2>1. Packer[name] = "fmwv"
    BY <1>4 DEF Packer
  <2>2. f_pack("fmwv", F, r, BTUP) = pack_rtr_fmwv(TRUE, fmw, rls, r)
    BY <2>1 DEF f_pack
  <2>. HIDE DEF fmw, rls
  <2>3. /\ Written(TRUE, fmw, "VER_MDM_FMW", "mdm_fmw", r) \subseteq pack_rtr_fmwv(TRUE, fmw, rls, r)
        /\ Written(TRUE, TRUE, "VER_RTR_FMW", "rtr_fmw", r) \subseteq pack_rtr_fmwv(TRUE, fmw, rls, r)
        /\ Written(TRUE, rls, "VER_APP_RLS", "app_rls", r) \subseteq pack_rtr_fmwv(TRUE, fmw, rls, r)
        /\ Written(TRUE, TRUE, "VER_APP_INV", "app_inv", r) \subseteq pack_rtr_fmwv(TRUE, fmw, rls, r)
    BY DEF pack_rtr_fmwv, IfRead
  <2>4. PICK got, of : Written(TRUE, got, name, of, r) \subseteq pack_rtr_fmwv(TRUE, fmw, rls, r)
    BY <1>4, <2>3, Zenon
  <2>5. PICK l \in Written(TRUE, got, name, of, r) : l.name = name
    BY ALine
  <2>. QED BY <2>1, <2>2, <2>4, <2>5, Zenon
<1>. QED BY <1>1, <1>2, <1>3, <1>4 DEF DeviceNames

LEMMA SectionWrites ==
  ASSUME NEW F, NEW r, NEW name \in DeviceNames, Packer[name] \notin F
  PROVE  ~Missing(Section(0, F, r, BTUP), name, 0)
<1>1. Packer[name] \in {"sn", "model", "mfn", "fmwv"}
  BY DEF Packer, DeviceNames
<1>2. PICK f : f = Packer[name]
  OBVIOUS
<1>3. f \in PackFunctions /\ Answers(f, BTUP)
  <2>1. Kind(BTUP) = 1
    BY DEF Kind, BTUP
  <2>. QED BY <1>1, <1>2, <2>1 DEF PackFunctions, pack_func_init, Answers, Kinds, Boot
<1>4. PICK l \in f_pack(f, F, r, BTUP) : l.name = name
  BY <1>2, PackWrites
<1>5. PICK p : p = [pos |-> 0 + pack_func_init[f], line |-> l]
  OBVIOUS
<1>6. p \in Section(0, F, r, BTUP) /\ p.line = l
  BY <1>3, <1>5 DEF Section
<1>. QED BY <1>4, <1>6 DEF Missing, Found

LEMMA ReadInit == Init => ReadInv
  BY DEF Init, ReadInv

LEMMA ReadStep == ReadInv /\ [Next]_vars => ReadInv'
<1>. SUFFICES ASSUME ReadInv, [Next]_vars PROVE ReadInv'
  OBVIOUS
<1>1. CASE BtupFirst
  <2>1. PICK sim \in Sims, file \in Labels : \E F \in Misses(BTUP, file) :
          LET r == [sim |-> sim, file |-> file, at |-> at + 1]
          IN  /\ out' = Section(0, F, r, BTUP)
              /\ Miss(F, file)
              /\ truthful' = (truthful /\ Truthful(r, BTUP))
    BY <1>1 DEF BtupFirst
  <2>2. PICK r, F : out' = Section(0, F, r, BTUP) /\ F \subseteq missed'
    BY <2>1 DEF Miss
  <2>. QED BY <2>2, SectionWrites DEF ReadInv
<1>2. CASE BtupSecond
  <2>1. out \subseteq out' /\ missed \subseteq missed' /\ pc = "first" /\ pkt' = pkt
    BY <1>2 DEF BtupSecond, Miss
  <2>2. \A name : ~Missing(out, name, 0) => ~Missing(out', name, 0)
    BY <2>1 DEF Missing, Found
  <2>. QED BY <2>1, <2>2 DEF ReadInv
<1>3. CASE PktPrd
  BY <1>3 DEF PktPrd, ReadInv, PRS_TYP_BTP, PRS_TYP_PRD
<1>4. CASE Receive \/ Lose
  BY <1>4 DEF Receive, Lose, Done, ReadInv
<1>5. CASE DeviceRestart \/ UNCHANGED vars
  BY <1>5 DEF DeviceRestart, vars, router, ReadInv
<1>. QED BY <1>1, <1>2, <1>3, <1>4, <1>5 DEF Next

\* A report in which the router's own values could be read has fourteen functions that
\* return 0, and the device goes over to periodic reports.
LEMMA Accepted ==
  ASSUME ReadInv, Receive, pkt = PRS_TYP_BTP, prs_typ = PRS_TYP_BTP,
         missed \cap DeviceFunctions = {}
  PROVE  prs_typ' = PRS_TYP_PRD
<1>1. \A name \in DeviceNames : ~Missing(out, name, 0)
  <2>1. \A name \in DeviceNames : Packer[name] \in DeviceFunctions
    BY DEF Packer, DeviceNames, DeviceFunctions
  <2>. QED BY <2>1 DEF ReadInv, Receive, Done
<1>2. Parsed(out) = BootFields
  <2>1. /\ \A f \in DOMAIN DeviceKeys : DeviceKeys[f] \in DeviceNames
        /\ \A f \in DOMAIN VersionKeys : VersionKeys[f] \in DeviceNames
    BY DEF DeviceKeys, VersionKeys, DeviceNames
  <2>2. DOMAIN DeviceKeys \cup DOMAIN VersionKeys = Device
    BY DEF DeviceKeys, VersionKeys, Device
  <2>. QED BY <1>1, <2>1, <2>2 DEF Parsed, BootFields
<1>3. get_btp_rcrd(out) = 0
  BY <1>2, Fourteen DEF get_btp_rcrd, BTP_PRM_CNT
<1>. QED BY <1>3 DEF Receive, ReadBoot, ReadPeriodic, PRS_TYP_BTP, PRS_TYP_PRD

\* A boot report is accepted whenever the router's own values could be read for it,
\* whatever became of the SIMs, the switches and the labels.
THEOREM BootIsAccepted == Spec => AcceptsBoot
<1>1. ReadInv /\ [Next]_vars =>
        [ /\ Receive
          /\ pkt = PRS_TYP_BTP /\ prs_typ = PRS_TYP_BTP
          /\ missed \cap DeviceFunctions = {}
          => prs_typ' = PRS_TYP_PRD ]_vars
  BY Accepted
<1>. QED BY ReadInit, ReadStep, <1>1, PTL DEF Spec, AcceptsBoot
=============================================================================
