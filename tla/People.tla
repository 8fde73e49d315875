------------------------------- MODULE People -------------------------------
(***************************************************************************)
(* Who works here and what they may do: sahl-core's Directory, roles,      *)
(* approval limits and sessions.  A PIN is compared through its hash; here *)
(* two PINs match when they are equal, and two people may have one PIN.    *)
(***************************************************************************)
EXTENDS Integers, FiniteSets, TLC

StaffKind == {"Enrolled", "RoleChanged", "PinChanged", "Deactivated", "Reactivated"}
Role == {"cashier", "manager", "owner"}
Permission == {"RingSale", "VoidLine", "RefundSale", "ApplyDiscount", "OverridePrice",
               "NoSaleDrawer", "OpenShift", "CloseShift", "MoveCash", "ReceiveStock",
               "CountStock", "EditCatalogue", "ManageStaff", "EnrolDevice", "ViewReports"}

OwnersOnly == {"ManageStaff", "EnrolDevice"}

RoleCan(role, permission) ==
    \/ role = "owner"
    \/ role = "manager" /\ permission \notin OwnersOnly
    \/ role = "cashier" /\ permission \in {"RingSale", "OpenShift", "CountStock", "ReceiveStock"}

\* The least role that holds a permission one lacks.
MinimumFor(permission) == IF permission \in OwnersOnly THEN "owner" ELSE "manager"

Strictest == [discount_limit |-> 0, discount_rate_limit |-> 0, void_limit |-> 0]

\* A limit is a grant of its own to those who lack the permission.
AllowsDiscount(role, amount, policy) ==
    RoleCan(role, "ApplyDiscount") \/ amount <= policy.discount_limit
AllowsDiscountRate(role, rate, policy) ==
    RoleCan(role, "ApplyDiscount") \/ rate <= policy.discount_rate_limit
AllowsVoid(role, value, policy) ==
    RoleCan(role, "VoidLine") \/ value <= policy.void_limit

-----------------------------------------------------------------------------
(***************************************************************************)
(* The directory: members by id.                                           *)
(***************************************************************************)

Nobody == << >>
Members(staff) == DOMAIN staff

StaffAccepts(staff, e) == (e.kind = "Enrolled") # (e.id \in Members(staff))

StaffApply(staff, e) ==
    CASE e.kind = "Enrolled" ->
           [m \in Members(staff) \cup {e.id} |->
              IF m = e.id THEN [role |-> e.data.role, pin |-> e.data.pin, active |-> TRUE,
                                since |-> e.at]
              ELSE staff[m]]
      [] e.kind = "RoleChanged" -> [staff EXCEPT ![e.id].role = e.data.role]
      [] e.kind = "PinChanged" -> [staff EXCEPT ![e.id].pin = e.data.pin]
      [] e.kind = "Deactivated" -> [staff EXCEPT ![e.id].active = FALSE]
      [] e.kind = "Reactivated" -> [staff EXCEPT ![e.id].active = TRUE]

MemberCan(member, permission) == member.active /\ RoleCan(member.role, permission)
Active(staff) == {m \in Members(staff) : staff[m].active}

\* Whether a named person signs in: someone who left does not, whatever they type.
SignsIn(staff, who, pin) == who \in Active(staff) /\ staff[who].pin = pin

Approvers(staff, permission) == {m \in Members(staff) : MemberCan(staff[m], permission)}

\* Faulty variant: whoever the PIN belongs to.
ApprovesByPin(staff, permission, pin) == {m \in Active(staff) : staff[m].pin = pin}

\* Whom a PIN alone identifies: of those who may, the first by id, which grow
\* with the time of enrolment.
Approves(staff, permission, pin) ==
    LET those == {m \in Approvers(staff, permission) : staff[m].pin = pin}
    IN {m \in those : \A other \in those : staff[m].since <= staff[other].since}

-----------------------------------------------------------------------------
(***************************************************************************)
(* A session: who signed in, and when they last did anything.              *)
(***************************************************************************)

SignedOut == [in |-> FALSE]
SignedIn(who, now) == [in |-> TRUE, who |-> who, touched |-> now]

SessionExpired(session, now, timeout) == now - session.touched > timeout

\* Who is at the till: a session that has not idled out, of somebody still here.
CurrentSession(session, staff, now, timeout) ==
    IF /\ session.in
       /\ ~SessionExpired(session, now, timeout)
       /\ session.who \in Active(staff)
    THEN {session.who} ELSE {}
=============================================================================
