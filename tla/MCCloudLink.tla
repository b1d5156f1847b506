---------------------------- MODULE MCCloudLink ----------------------------
(* Both builds, with one alarm that is not tracked, one other key that is, a  *)
(* parameter that fits the shadow's document and one that may not, two        *)
(* tenants, and two things that go wrong.                                     *)
EXTENDS CloudLink

CONSTANTS alarm, temp, setpoint, logging, t1, t2

MCServices == {"mqtt", "aws"}
MCAlarmKeys == {alarm}
MCOtherKeys == {temp}
MCUntracked == {alarm}
MCParams    == {setpoint, logging}
MCFits      == {setpoint}
MCTenants   == {t1, t2}

=============================================================================
