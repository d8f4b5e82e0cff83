------------------------------- MODULE Payload -------------------------------
(***************************************************************************)
(* What the router writes into its reports (mdm_payload.c): the pack       *)
(* functions, the order pack_func_init puts them in, and the lines each of *)
(* them writes when the value can be read and when it cannot.              *)
(*                                                                         *)
(* A line is a label and a value.  A label is a name and a number: "IMSI_1"*)
(* is <<"IMSI", 1>>, "MFN" is <<"MFN", 0>>.  A value is abstracted to      *)
(* where it comes from: the quantity it is a value of, the SIM in use when *)
(* it was read and the report it was read for.  An empty text and a -1 are *)
(* both None.                                                              *)
(***************************************************************************)
EXTENDS Integers

BTUP == 5   \* PACK_TYP_BTUP
PRD == 6    \* PACK_TYP_PRD
SIM == 3    \* PACK_TYP_SIM
FILL == 4   \* the bit a SIM specific value is only written with

Kind(typ) == typ % 4
Fills(typ) == (typ \div FILL) % 2 = 1

Boot == {0, 1}
Periodic == {0, 2}
SimSpecific == {0, 1, 3}

\* A value, and the settings r a section is written under: the SIM the GPIO
\* selects, what ActiveSIMStatus says, and the number of the report.
None == [of |-> "nothing", sim |-> 0, at |-> 0]
Value(of, r) == [of |-> of, sim |-> r.sim, at |-> r.at]
Line(name, num, val) == [name |-> name, num |-> num, val |-> val]

\* A line that is only written when its value could be read, one that is also
\* written when the read says 0 without a value (got), and one that is written
\* without it.
Written(ok, got, name, of, r) ==
  IF ok THEN {Line(name, 0, IF got THEN Value(of, r) ELSE None)} ELSE {}
IfRead(ok, name, of, r) == Written(ok, TRUE, name, of, r)
Always(ok, name, num, of, r) == {Line(name, num, IF ok THEN Value(of, r) ELSE None)}

----------------------------------------------------------------------------
(* The pack functions.  ok: whether the read of the value returned 0,      *)
(* within the retries the function makes; got: whether it left a value.    *)

\* mdm_get_sn returns 0 also when the modem's answer has no echo in it.
pack_mdm_sn(ok, got, r) == Written(ok, got, "MDM_SN", "sn", r)

\* mdm_get_model returns 0 also when time is up ("ret -1;"), and looks for the
\* end of the answer, and for the model, in a buffer it does not clear.
pack_mdm_model(ok, got, own, r) ==
  Written(ok, got, "MDM_MDL", IF own THEN "model" ELSE "leftover", r)
pack_mdm_mfn(ok, r) == IfRead(ok, "MFN", "mfn", r)

\* One call reads all four versions.  It returns -1, and no line is written,
\* without /etc/legato/version or popen(), or when the release has no number; it
\* returns 0 when the modem does not tell its firmware or the release is empty.
pack_rtr_fmwv(ok, fmw, rls, r) ==
  UNION {Written(ok, fmw, "VER_MDM_FMW", "mdm_fmw", r),
         IfRead(ok, "VER_RTR_FMW", "rtr_fmw", r),
         Written(ok, rls, "VER_APP_RLS", "app_rls", r),
         IfRead(ok, "VER_APP_INV", "app_inv", r)}

\* The label is what ActiveSIMStatus says, the value the modem's.
pack_sim(ok, name, of, r, typ) == Always(ok /\ Fills(typ), name, r.file, of, r)
pack_mdm_imsi(ok, r, typ) == pack_sim(ok, "IMSI", "imsi", r, typ)
pack_mdm_ccid(ok, r, typ) == pack_sim(ok, "CCID", "ccid", r, typ)
pack_mdm_spn(ok, r, typ) == pack_sim(ok, "SPN", "spn", r, typ)

pack_sys_uptime(ok, r) == IfRead(ok, "SYS_UPTIME", "uptime", r)
pack_mdm_csq(ok, r) == Always(ok, "CSQ", 0, "csq", r)
pack_mdm_paTmp(ok, r) == IfRead(ok, "Power_amp_tmp", "amp", r)
pack_mdm_pcTmp(ok, r) == IfRead(ok, "Power_core_tmp", "core", r)

\* The number of NET_STS is the SIM of the GPIO, that of PNG_STS the file's.
pack_mdm_netSts(ok, r) == Always(ok, "NET_STS", r.sim, "net", r)
pack_mdm_pngSts(ok, r) == Always(ok, "PNG_STS", r.file, "ping", r)

pack_eth_info(ok, r) ==
  UNION {IfRead(ok, "IP_ecm0", "ecm0", r), IfRead(ok, "IP_eth0", "eth0", r),
         IfRead(ok, "IP_eth1", "eth1", r), IfRead(ok, "IP_eth2", "eth2", r)}

\* The buffer still holds the lines of pack_eth_info: pkt_prd does not clear
\* it, and this function does not either.
pack_meminfo(ok, r, before) == IF ok THEN IfRead(TRUE, "MEM_INFO", "mem", r) ELSE before

pack_sys_time(r) == IfRead(TRUE, "RTC_TM", "rtc", r)
pack_sim_slot(r) == IfRead(r.file >= 0, "ACTV_SIM_SLT", "slot", r)
pack_mdm_rat(ok, r) == Always(ok, "SIM_RAT", r.file, "rat", r)
\* A slot whose state cannot be read is reported as empty.
pack_mdm_sltSts(r) == IfRead(TRUE, "ACTV_SLT_STS", "sltSts", r)
pack_mdm_rstIntrvl(ok, r) == IfRead(ok, "RST_TIME", "rst", r)

----------------------------------------------------------------------------
(* The table: each function's place in it and the kinds of report it writes*)
(* its lines for.                                                          *)

pack_func_init ==
  [sn |-> 0, model |-> 1, mfn |-> 2, imsi |-> 3, ccid |-> 4, spn |-> 5, uptime |-> 6,
   fmwv |-> 7, csq |-> 8, paTmp |-> 9, pcTmp |-> 10, netSts |-> 11, pngSts |-> 12,
   eth |-> 13, meminfo |-> 14, time |-> 15, sim_slot |-> 16, rat |-> 17,
   sltSts |-> 18, rst |-> 19]
PackFunctions == DOMAIN pack_func_init
sz_packFn == 20

Kinds(f) ==
  IF f \in {"sn", "model", "mfn", "fmwv"} THEN Boot
  ELSE IF f \in {"imsi", "ccid", "spn"} THEN SimSpecific
  ELSE Periodic
Answers(f, typ) == Kind(typ) \in Kinds(f)

\* What a read that returns 0 may still do wrong, and the function it is made by.
Slips ==
  [no_sn |-> "sn", no_model |-> "model", other_model |-> "model",
   no_mdm_fmw |-> "fmwv", no_app_rls |-> "fmwv"]

\* The lines of function f; missed: the functions whose reads fail, and slips.
f_pack(f, missed, r, typ) ==
  LET ok(g) == g \notin missed
  IN  CASE f = "sn" -> pack_mdm_sn(ok(f), ok("no_sn"), r)
        [] f = "model" -> pack_mdm_model(ok(f), ok("no_model"), ok("other_model"), r)
        [] f = "mfn" -> pack_mdm_mfn(ok(f), r)
        [] f = "imsi" -> pack_mdm_imsi(ok(f), r, typ)
        [] f = "ccid" -> pack_mdm_ccid(ok(f), r, typ)
        [] f = "spn" -> pack_mdm_spn(ok(f), r, typ)
        [] f = "uptime" -> pack_sys_uptime(ok(f), r)
        [] f = "fmwv" -> pack_rtr_fmwv(ok(f), ok("no_mdm_fmw"), ok("no_app_rls"), r)
        [] f = "csq" -> pack_mdm_csq(ok(f), r)
        [] f = "paTmp" -> pack_mdm_paTmp(ok(f), r)
        [] f = "pcTmp" -> pack_mdm_pcTmp(ok(f), r)
        [] f = "netSts" -> pack_mdm_netSts(ok(f), r)
        [] f = "pngSts" -> pack_mdm_pngSts(ok(f), r)
        [] f = "eth" -> pack_eth_info(ok(f), r)
        [] f = "meminfo" -> pack_meminfo(ok(f), r, pack_eth_info(ok("eth"), r))
        [] f = "time" -> pack_sys_time(r)
        [] f = "sim_slot" -> pack_sim_slot(r)
        [] f = "rat" -> pack_mdm_rat(ok(f), r)
        [] f = "sltSts" -> pack_mdm_sltSts(r)
        [] f = "rst" -> pack_mdm_rstIntrvl(ok(f), r)

\* The loop over the table: every line with its place in the report; from is
\* the place the section begins at.
Section(from, missed, r, typ) ==
  UNION {{[pos |-> from + pack_func_init[f], line |-> l] : l \in f_pack(f, missed, r, typ)} :
         f \in {g \in PackFunctions : Answers(g, typ)}}
=============================================================================
