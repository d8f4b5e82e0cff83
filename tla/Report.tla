------------------------------- MODULE Report -------------------------------
(***************************************************************************)
(* A report from the values in the router to the record in the device:     *)
(* pkt_btup and pkt_prd write the lines of Payload, th_rtr_prd reads them  *)
(* with the functions of ReportParser and keeps its record from one report *)
(* to the next.  Which report comes when is the business of StatusLink, and*)
(* which SIM is in use while a section is written that of SimSwitch: here  *)
(* a report of either kind may come next, written under any settings.      *)
(***************************************************************************)
EXTENDS ReportParser

CONSTANTS
  MaxReports,  \* bound: reports the router writes
  MaxMisses,   \* bound: values that cannot be read, over all reports
  MaxAtOnce    \* bound: values that cannot be read in one section

ASSUME MaxReportsAssumption == MaxReports \in Nat
ASSUME MaxMissesAssumption == MaxMisses \in Nat
ASSUME MaxAtOnceAssumption == MaxAtOnce \in Nat

VARIABLES
  pc,        \* the router: "idle", "first" (section of a boot report written) or "sent"
  pkt,       \* the report it writes or has sent: PRS_TYP_BTP or PRS_TYP_PRD
  out,       \* its lines
  at,        \* its number
  missed,    \* the functions whose value could not be read for it, and slips
  misses,    \* how often a value could not be read
  record,    \* the device's record (VEGA_PRD)
  prs_typ,   \* the kind of report the device waits for
  whole,     \* history: number of the boot report the device has accepted
  lacking,   \* history: the slips in that report
  last,      \* history: number of the last periodic report it has read
  truthful   \* history: every label has been that of the SIM in use

router == <<pc, pkt, out, at, missed, misses>>
device == <<record, prs_typ, whole, lacking, last>>
vars == <<router, device, truthful>>

Sims == {1, 2}
\* What read_active_sim returns: -1 when the file cannot be read, 0 when it is
\* empty.
Labels == {-1, 0, 1, 2}
Settings == [sim : Sims, file : Labels, at : 0..MaxReports]

Init ==
  /\ pc = "idle" /\ pkt = PRS_TYP_BTP /\ out = {} /\ at = 0 /\ missed = {} /\ misses = 0
  /\ record = NoRecord /\ prs_typ = PRS_TYP_BTP /\ whole = 0 /\ lacking = {} /\ last = 0
  /\ truthful = TRUE

\* What may fail in a section; a file that cannot be read counts too.
Reads(typ) ==
  {f \in PackFunctions : Answers(f, typ)} \cup {s \in DOMAIN Slips : Answers(Slips[s], typ)}
AnyRead == PackFunctions \cup DOMAIN Slips
Cost(F, file) == Cardinality(F) + (IF file \in Sims THEN 0 ELSE 1)
Failures ==
  [typ \in {BTUP, SIM, PRD} |->
     {F \in SUBSET Reads(typ) : Cardinality(F) <= MaxAtOnce}]
Misses(typ, file) == {F \in Failures[typ] : misses + Cost(F, file) <= MaxMisses}
Miss(F, file) == missed' = missed \cup F /\ misses' = misses + Cost(F, file)
Truthful(r, typ) == Fills(typ) /\ r.file \in Sims => r.file = r.sim

----------------------------------------------------------------------------
(* The router.                                                             *)

\* pkt_btup: the section written with SIM 1 selected, or what the switch left.
BtupFirst ==
  /\ pc = "idle" /\ at < MaxReports
  /\ \E sim \in Sims, file \in Labels : \E F \in Misses(BTUP, file) :
       LET r == [sim |-> sim, file |-> file, at |-> at + 1]
       IN  /\ out' = Section(0, F, r, BTUP)
           /\ Miss(F, file)
           /\ truthful' = (truthful /\ Truthful(r, BTUP))
  /\ pc' = "first" /\ pkt' = PRS_TYP_BTP /\ at' = at + 1
  /\ UNCHANGED device

\* The section of SIM 2, filled if the switch succeeded (without it no value of
\* a SIM is written, whichever is in use), the slots and the end.
SlotLine(r) == [pos |-> 2 * sz_packFn, line |-> Line("BTP_SLT_STS", 0, Value("btpSlt", r))]
BtupSecond ==
  /\ pc = "first"
  /\ \E file \in Labels, typ \in {SIM, SIM + FILL} : \E F \in Misses(SIM, file) :
       LET r == [sim |-> 2, file |-> file, at |-> at]
       IN  /\ out' = out \cup Section(sz_packFn, F, r, typ) \cup {SlotLine(r)}
           /\ Miss(F, file)
           /\ truthful' = (truthful /\ Truthful(r, typ))
  /\ pc' = "sent"
  /\ UNCHANGED <<pkt, at, device>>

\* pkt_prd.
PktPrd ==
  /\ pc = "idle" /\ at < MaxReports
  /\ \E sim \in Sims, file \in Labels : \E F \in Misses(PRD, file) :
       LET r == [sim |-> sim, file |-> file, at |-> at + 1]
       IN  /\ out' = Section(0, F, r, PRD)
           /\ Miss(F, file)
           /\ truthful' = (truthful /\ Truthful(r, PRD))
  /\ pc' = "sent" /\ pkt' = PRS_TYP_PRD /\ at' = at + 1
  /\ UNCHANGED device

----------------------------------------------------------------------------
(* The device.                                                             *)

\* th_rtr_prd waits for a boot report: any other is left alone (-2), an
\* incomplete one is stored all the same.
\* Mutant: the result of get_btp_rcrd taken for the kind to wait for.
ReadBootMutant ==
  /\ prs_typ = PRS_TYP_BTP
  /\ IF pkt = PRS_TYP_BTP
     THEN /\ record' = BootRecord(out, record)
          /\ prs_typ' = get_btp_rcrd(out)
          /\ whole' = at /\ lacking' = missed \cap DOMAIN Slips
     ELSE UNCHANGED <<record, prs_typ, whole, lacking>>
  /\ UNCHANGED last
ReadBoot ==
  /\ prs_typ = PRS_TYP_BTP
  /\ IF pkt = PRS_TYP_BTP
     THEN /\ record' = BootRecord(out, record)
          /\ IF get_btp_rcrd(out) = 0
             THEN prs_typ' = PRS_TYP_PRD /\ whole' = at /\ lacking' = missed \cap DOMAIN Slips
             ELSE UNCHANGED <<prs_typ, whole, lacking>>
     ELSE UNCHANGED <<record, prs_typ, whole, lacking>>
  /\ UNCHANGED last

ReadPeriodic ==
  /\ prs_typ = PRS_TYP_PRD
  /\ IF pkt = PRS_TYP_PRD
     THEN record' = PeriodicRecord(out, record) /\ last' = at
     ELSE UNCHANGED <<record, last>>
  /\ UNCHANGED <<prs_typ, whole, lacking>>

\* The report is done with: the router clears its buffer before the next one.
Done ==
  /\ pc = "sent" /\ pc' = "idle"
  /\ out' = {} /\ missed' = {}
  /\ UNCHANGED <<pkt, at, misses, truthful>>

Receive == Done /\ (ReadBoot \/ ReadPeriodic)

\* The report is lost with the connection.
Lose == Done /\ UNCHANGED device

\* The device's program is started again with an empty record, also while an
\* incomplete boot report is stored in it.
DeviceRestart ==
  /\ record' = NoRecord /\ prs_typ' = PRS_TYP_BTP
  /\ whole' = 0 /\ lacking' = {} /\ last' = 0
  /\ UNCHANGED <<router, truthful>>

Next == BtupFirst \/ BtupSecond \/ PktPrd \/ Receive \/ Lose \/ DeviceRestart

Spec == Init /\ [][Next]_vars

----------------------------------------------------------------------------

\* Every variable has its type; both ends count reports the same way.
TypeOK ==
  /\ pc \in {"idle", "first", "sent"}
  /\ pkt \in {PRS_TYP_BTP, PRS_TYP_PRD} /\ prs_typ \in {PRS_TYP_BTP, PRS_TYP_PRD}
  /\ at \in 0..MaxReports /\ whole \in 0..at /\ last \in 0..at
  /\ missed \subseteq AnyRead /\ lacking \subseteq DOMAIN Slips /\ misses \in 0..MaxMisses
  /\ DOMAIN record = Fields
  /\ truthful \in BOOLEAN

\* The quantity each field is there for; the model may be another text, left over
\* in the memory of mdm_get_model.
Shows ==
  [cMdm_sn |-> {"sn"}, cMdm_mdl |-> {"model", "leftover"}, cMdm_mfn |-> {"mfn"},
   cVER_MDM_FMW |-> {"mdm_fmw"}, cVER_RTR_FMW |-> {"rtr_fmw"},
   cVER_APP_RLS |-> {"app_rls"}, cVER_APP_INV |-> {"app_inv"},
   cIMSI1 |-> {"imsi"}, cIMSI2 |-> {"imsi"}, cCCID1 |-> {"ccid"}, cCCID2 |-> {"ccid"},
   cSpn1 |-> {"spn"}, cSpn2 |-> {"spn"}, iBtp_Slt_sts |-> {"btpSlt"}, sSys_uptime |-> {"uptime"},
   cCsq |-> {"csq"}, fTemp0 |-> {"amp"}, fTemp1 |-> {"core"}, iNet_sts |-> {"net"},
   iPng_sts |-> {"ping"}, cRAT1 |-> {"rat"}, cRAT2 |-> {"rat"}, cIP_ecm0 |-> {"ecm0"},
   cIP_eth0 |-> {"eth0"}, cIP_eth1 |-> {"eth1"}, cIP_eth2 |-> {"eth2"}, sMem_info |-> {"mem"},
   cRtc_tm |-> {"rtc"}, iActv_sim_slt |-> {"slot"}, sRst_Time |-> {"rst"},
   iActv_Slt_sts |-> {"sltSts"}]
SimOf ==
  [cIMSI1 |-> 1, cIMSI2 |-> 2, cCCID1 |-> 1, cCCID2 |-> 2, cSpn1 |-> 1, cSpn2 |-> 2,
   cRAT1 |-> 1, cRAT2 |-> 2]

\* No field of the record ever holds a value of another quantity, whatever
\* lines are missing (pack functions and parse functions agree on the labels);
\* a wrong text that mdm_get_model reads stays in the field of the model.
RightField == \A f \in Fields : record[f] # None => record[f].of \in Shows[f]

\* A field of a SIM holds a value of that SIM, as long as no label has been
\* wrong: also when a section was written with the other SIM in use, or twice
\* with the same.
RightSim == truthful => \A f \in DOMAIN SimOf : record[f] # None => record[f].sim = SimOf[f]

\* The fields get_btp_rcrd counts although they may be empty, and the slip of a
\* pack function that empties them.
MayBeEmpty ==
  [cMdm_sn |-> "no_sn", cMdm_mdl |-> "no_model",
   cVER_MDM_FMW |-> "no_mdm_fmw", cVER_APP_RLS |-> "no_app_rls"]

\* Once the device goes over to periodic reports its record has the router's own
\* values and no value of a SIM that are not from the boot report it accepted:
\* incomplete boot reports read before leave no trace.  A value of the router
\* itself is missing only when it is one of the four of MayBeEmpty and the
\* accepted report had its line without a value.
WholeBoot ==
  prs_typ = PRS_TYP_PRD =>
    /\ \A f \in Device :
         record[f] = None => f \in DOMAIN MayBeEmpty /\ MayBeEmpty[f] \in lacking
    /\ \A f \in BootFields : record[f] # None => record[f].at = whole

\* All the periodic fields show one report, the last one read: a value that
\* could not be read is blank and not that of an earlier report.  The signal
\* quality is left out: its line is written without a value, and cCsq kept.
OneReport == \A f \in PeriodicFields \ {"cCsq"} : record[f] # None => record[f].at = last

\* A boot report for which every read of a value of the router itself returned 0
\* is accepted: silent SIMs, failed switches, doubled labels and lines without a
\* value do not make the count of get_btp_rcrd fall short of BTP_PRM_CNT.
DeviceFunctions == {"sn", "model", "mfn", "fmwv"}
AcceptsBoot ==
  [][ /\ Receive
      /\ pkt = PRS_TYP_BTP /\ prs_typ = PRS_TYP_BTP
      /\ missed \cap DeviceFunctions = {}
      => prs_typ' = PRS_TYP_PRD ]_vars
=============================================================================
