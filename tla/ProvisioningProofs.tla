------------------------- MODULE ProvisioningProofs -------------------------
(***************************************************************************)
(* The safety of provisioning, for any number of ONUs and any losses,      *)
(* repetitions and reorderings of frames: every port is listened to unless *)
(* it was missed, a device is adopted once, the agent's last_data is what  *)
(* the tree holds, and no ONU becomes active by an old answer.             *)
(*                                                                         *)
(* The invariant says of each device with an agent that its objects, the   *)
(* tree's, the agent's and the adapter's, fit together (Held), and of the  *)
(* adapters that whatever they wait for belongs to a device that was       *)
(* adopted.                                                                *)
(***************************************************************************)
EXTENDS Provisioning, TLAPS

Objects == [admin : {"PREPROVISIONED", "ENABLED"},
            oper : {"UNKNOWN", "ACTIVATING", "ACTIVE"},
            info : BOOLEAN, logical : BOOLEAN]

AgentStates == [objects : Seq(Objects), node : Nat, last_data : Nat,
                adopted : Seq(Nat)]

\* The object that its adapter was given is still the one it was activated
\* with, but for the fields that only tell about the hardware.
Adopted(s) ==
    /\ Len(s.adopted) = 1 /\ s.adopted[1] \in 1..Len(s.objects)
    /\ s.objects[s.adopted[1]].admin = "ENABLED"
    /\ s.objects[s.adopted[1]].oper = "ACTIVATING"
    /\ s.objects[s.node].admin = "ENABLED"

Created(s) == s.adopted = <<>> /\ s.objects[s.node].admin = "PREPROVISIONED"

Held(s) ==
    /\ s \in AgentStates
    /\ s.node \in 1..Len(s.objects) /\ s.last_data \in 1..Len(s.objects)
    /\ s.objects[s.last_data] = s.objects[s.node]
    /\ Adopted(s) \/ Created(s)

-----------------------------------------------------------------------------
(***************************************************************************)
(* The device agent                                                        *)
(***************************************************************************)

\* t is s after the agent has stored object o.
OwnStored(t, s, o) ==
    /\ t \in AgentStates /\ t.objects = s.objects /\ t.adopted = s.adopted
    /\ t.last_data = o /\ t.node \in 1..Len(t.objects) /\ t.node \in {s.node, o}
    /\ t.objects[t.node] = t.objects[o]

LEMMA UpdateStores ==
    ASSUME NEW s \in AgentStates, NEW o \in 1..Len(s.objects),
           s.node \in 1..Len(s.objects)
    PROVE  OwnStored(update_device(s, o), s, o)
<1>1. PICK t : t = [s EXCEPT !.last_data = o]
  BY Zenon
<1>2. o \in Nat /\ o # 0
  BY DEF AgentStates
<1>3. /\ t \in AgentStates /\ t.objects = s.objects /\ t.adopted = s.adopted
      /\ t.last_data = o /\ t.node = s.node
  BY <1>1, <1>2, Zenon DEF AgentStates
<1>4. update_device(s, o) = StoreOwn(t, o)
  BY <1>1, Zenon DEF update_device
<1>5. CASE t.objects[t.node] = t.objects[o]
  BY <1>3, <1>4, <1>5, Zenon DEF StoreOwn, Stored, OwnStored
<1>6. CASE t.objects[t.node] # t.objects[o]
  <2>1. PICK v : v = [t EXCEPT !.node = o]
    BY Zenon
  <2>2. /\ v \in AgentStates /\ v.objects = s.objects /\ v.adopted = s.adopted
        /\ v.last_data = o /\ v.node = o
    BY <1>2, <1>3, <2>1, Zenon DEF AgentStates
  <2>3. ~Activates(LastAdmin(t), t.objects[o].admin)
    BY <1>2, <1>3, Zenon DEF LastAdmin, Activates
  <2>4. update_device(s, o) = note_update(v, o)
    BY <1>4, <1>6, <2>1, <2>3, Zenon DEF StoreOwn, Stored
  <2>5. note_update(v, o) = [v EXCEPT !.last_data = o]
    BY <2>2, Zenon DEF note_update
  <2>6. [v EXCEPT !.last_data = o] = v
    BY <2>2, Zenon DEF AgentStates
  <2> QED
    BY <2>2, <2>4, <2>5, <2>6, Zenon DEF OwnStored
<1> QED
  BY <1>5, <1>6, Zenon

\* t is s with object o written to, and with one more object.
Rewrites(t, s, o, v) ==
    /\ t \in AgentStates
    /\ t.node = s.node /\ t.last_data = s.last_data /\ t.adopted = s.adopted
    /\ Len(t.objects) = Len(s.objects) /\ t.objects[o] = v
    /\ \A i \in 1..Len(s.objects) : i # o => t.objects[i] = s.objects[i]

Copies(t, s, v) ==
    /\ t \in AgentStates
    /\ t.node = s.node /\ t.last_data = s.last_data /\ t.adopted = s.adopted
    /\ Len(t.objects) = Len(s.objects) + 1 /\ t.objects[Len(t.objects)] = v
    /\ \A i \in 1..Len(s.objects) : t.objects[i] = s.objects[i]

LEMMA Rewriting ==
    ASSUME NEW s \in AgentStates, NEW o \in 1..Len(s.objects), NEW v \in Objects,
           NEW t, t = [s EXCEPT !.objects = [s.objects EXCEPT ![o] = v]]
    PROVE  Rewrites(t, s, o, v)
<1>1. PICK x : x = s.objects
  BY Zenon
<1>2. x \in Seq(Objects) /\ o \in 1..Len(x)
  BY <1>1, Zenon DEF AgentStates
<1>3. PICK y : y = [x EXCEPT ![o] = v]
  BY Zenon
<1>4. /\ y \in Seq(Objects) /\ Len(y) = Len(x) /\ y[o] = v
      /\ \A i \in 1..Len(x) : i # o => y[i] = x[i]
  BY <1>2, <1>3
<1>5. t = [s EXCEPT !.objects = y]
  BY <1>1, <1>3, Zenon
<1>6. /\ t \in AgentStates /\ t.objects = y
      /\ t.node = s.node /\ t.last_data = s.last_data /\ t.adopted = s.adopted
  BY <1>4, <1>5, Zenon DEF AgentStates
<1> QED
  BY <1>1, <1>4, <1>6, Zenon DEF Rewrites

LEMMA Copying ==
    ASSUME NEW s \in AgentStates, NEW v \in Objects,
           NEW t, t = [s EXCEPT !.objects = Append(s.objects, v)]
    PROVE  Copies(t, s, v)
<1>1. PICK x : x = s.objects
  BY Zenon
<1>2. x \in Seq(Objects)
  BY <1>1, Zenon DEF AgentStates
<1>3. PICK y : y = Append(x, v)
  BY Zenon
<1>4. /\ y \in Seq(Objects) /\ Len(y) = Len(x) + 1 /\ y[Len(y)] = v
      /\ \A i \in 1..Len(x) : y[i] = x[i]
  BY <1>2, <1>3
<1>5. t = [s EXCEPT !.objects = y]
  BY <1>1, <1>3, Zenon
<1>6. /\ t \in AgentStates /\ t.objects = y
      /\ t.node = s.node /\ t.last_data = s.last_data /\ t.adopted = s.adopted
  BY <1>4, <1>5, Zenon DEF AgentStates
<1> QED
  BY <1>1, <1>4, <1>6, Zenon DEF Copies

\* The adapter has contacted its device: it writes into the object it was
\* given and stores it.
LEMMA ContactedIsHeld ==
    ASSUME NEW s, Held(s), Adopted(s)
    PROVE  /\ Held(Contacted(s)) /\ Adopted(Contacted(s))
           /\ Stored(Contacted(s)).oper = "ACTIVATING"
<1>1. PICK o : o = s.adopted[1]
  BY Zenon
<1>2. /\ s \in AgentStates /\ o \in 1..Len(s.objects) /\ Len(s.adopted) = 1
      /\ s.node \in 1..Len(s.objects)
      /\ s.objects[o].admin = "ENABLED" /\ s.objects[o].oper = "ACTIVATING"
  BY <1>1, Zenon DEF Held, Adopted
<1>3. s.objects[o] \in Objects
  BY <1>2 DEF AgentStates
<1>4. PICK v : v = [s.objects[o] EXCEPT !.info = TRUE]
  BY Zenon
<1>5. v \in Objects /\ v.admin = "ENABLED" /\ v.oper = "ACTIVATING"
  BY <1>2, <1>3, <1>4, Zenon DEF Objects
<1>6. PICK t : t = [s EXCEPT !.objects[o].info = TRUE]
  BY Zenon
<1>7. t = [s EXCEPT !.objects = [s.objects EXCEPT ![o] = v]]
  BY <1>4, <1>6, Zenon
<1>8. Rewrites(t, s, o, v)
  BY <1>2, <1>5, <1>7, Rewriting, Zenon
<1>9. /\ t \in AgentStates /\ o \in 1..Len(t.objects) /\ t.node \in 1..Len(t.objects)
      /\ t.objects[o] = v /\ t.adopted = s.adopted
  BY <1>2, <1>8, Zenon DEF Rewrites
<1>10. PICK u : u = Contacted(s)
  BY Zenon
<1>11. u = update_device(t, o)
  BY <1>1, <1>6, <1>10, Zenon DEF Contacted
<1>12. OwnStored(u, t, o)
  BY <1>9, <1>11, UpdateStores, Zenon
<1>13. /\ u \in AgentStates /\ u.adopted = s.adopted /\ u.objects[u.node] = v
       /\ u.last_data = o /\ u.objects[o] = v /\ o \in 1..Len(u.objects)
       /\ u.node \in 1..Len(u.objects)
  BY <1>9, <1>12, Zenon DEF OwnStored
<1>14. Adopted(u)
  BY <1>1, <1>2, <1>5, <1>13, Zenon DEF Adopted
<1>15. Held(u)
  BY <1>13, <1>14, Zenon DEF Held
<1> QED
  BY <1>5, <1>10, <1>13, <1>14, <1>15, Zenon DEF Stored

\* The device is shown as active: a copy is changed and stored.
LEMMA ShownIsHeld ==
    ASSUME NEW s, Held(s), Adopted(s), NEW logical \in BOOLEAN
    PROVE  Held(ShownActive(s, logical)) /\ Adopted(ShownActive(s, logical))
<1>1. /\ s \in AgentStates /\ s.node \in 1..Len(s.objects)
      /\ s.objects[s.node].admin = "ENABLED"
      /\ Len(s.adopted) = 1 /\ s.adopted[1] \in 1..Len(s.objects)
      /\ s.objects[s.adopted[1]].admin = "ENABLED"
      /\ s.objects[s.adopted[1]].oper = "ACTIVATING"
  BY Zenon DEF Held, Adopted
<1>2. PICK w : w = s.objects[s.node]
  BY Zenon
<1>3. w \in Objects /\ w.admin = "ENABLED" /\ Len(s.objects) \in Nat
  BY <1>1, <1>2 DEF AgentStates
<1>4. PICK copy : copy = get_device(s)
  BY Zenon
<1>5. copy = [s EXCEPT !.objects = Append(s.objects, w)]
  BY <1>2, <1>4, Zenon DEF get_device, Stored
<1>6. Copies(copy, s, w)
  BY <1>1, <1>3, <1>5, Copying, Zenon
<1>7. PICK o : o = Len(copy.objects)
  BY Zenon
<1>8. /\ copy \in AgentStates /\ copy.objects[o] = w /\ o = Len(s.objects) + 1
      /\ copy.node = s.node /\ copy.adopted = s.adopted
      /\ \A i \in 1..Len(s.objects) : copy.objects[i] = s.objects[i]
  BY <1>6, <1>7, Zenon DEF Copies
<1>9. /\ o \in 1..Len(copy.objects)
      /\ \A i \in 1..Len(s.objects) : i # o /\ i \in 1..Len(copy.objects)
  BY <1>3, <1>7, <1>8
<1>10. PICK x, v : /\ x = [w EXCEPT !.oper = "ACTIVE"]
                   /\ v = [x EXCEPT !.logical = @ \/ logical]
  BY Zenon
<1>11. x \in Objects /\ v \in Objects /\ v.admin = "ENABLED"
  BY <1>3, <1>10, Zenon DEF Objects
<1>12. PICK c, t : /\ c = [copy EXCEPT !.objects[o].oper = "ACTIVE"]
                   /\ t = [c EXCEPT !.objects[o].logical = @ \/ logical]
  BY Zenon
<1>13. Rewrites(c, copy, o, x)
  <2>1. c = [copy EXCEPT !.objects = [copy.objects EXCEPT ![o] = x]]
    BY <1>8, <1>10, <1>12, Zenon
  <2> QED
    BY <1>8, <1>9, <1>11, <2>1, Rewriting, Zenon
<1>14. Rewrites(t, c, o, v)
  <2>1. c \in AgentStates /\ c.objects[o] = x /\ o \in 1..Len(c.objects)
    BY <1>9, <1>13, Zenon DEF Rewrites
  <2>2. t = [c EXCEPT !.objects = [c.objects EXCEPT ![o] = v]]
    BY <1>10, <1>12, <2>1, Zenon
  <2> QED
    BY <1>11, <2>1, <2>2, Rewriting, Zenon
<1>15. /\ t \in AgentStates /\ o \in 1..Len(t.objects) /\ t.node \in 1..Len(t.objects)
       /\ t.objects[o] = v /\ t.adopted = s.adopted
       /\ \A i \in 1..Len(s.objects) :
            t.objects[i] = s.objects[i] /\ i \in 1..Len(t.objects)
  BY <1>1, <1>8, <1>9, <1>13, <1>14, Zenon DEF Rewrites
<1>16. PICK u : u = ShownActive(s, logical)
  BY Zenon
<1>17. u = update_device(t, o)
  BY <1>4, <1>7, <1>12, <1>16, ZenonT(40) DEF ShownActive, Newest
<1>18. OwnStored(u, t, o)
  BY <1>15, <1>17, UpdateStores, Zenon
<1>19. /\ u \in AgentStates /\ u.adopted = s.adopted /\ u.objects = t.objects
       /\ u.objects[u.node] = v /\ u.last_data = o /\ u.objects[o] = v
       /\ o \in 1..Len(u.objects) /\ u.node \in 1..Len(u.objects)
  BY <1>15, <1>18, Zenon DEF OwnStored
<1>20. Adopted(u)
  BY <1>1, <1>11, <1>15, <1>19, Zenon DEF Adopted
<1>21. Held(u)
  BY <1>19, <1>20, Zenon DEF Held
<1> QED
  BY <1>16, <1>20, <1>21, Zenon

Activated(t) == Held(t) /\ Adopted(t) /\ Stored(t).oper = "ACTIVATING"

\* activate_device() on an object that the tree has or is about to get.
LEMMA ActivationIsHeld ==
    ASSUME NEW s \in AgentStates, NEW o \in 1..Len(s.objects),
           s.node \in 1..Len(s.objects), s.adopted = <<>>,
           s.objects[o].admin = "ENABLED",
           NEW t, t = [activate_device(s, o) EXCEPT !.last_data = o]
    PROVE  Activated(t) /\ t.node \in {s.node, o}
<1>1. s.objects[o] \in Objects /\ o \in Nat
  BY DEF AgentStates
<1>2. PICK v : v = [s.objects[o] EXCEPT !.oper = "ACTIVATING"]
  BY Zenon
<1>3. v \in Objects /\ v.admin = "ENABLED" /\ v.oper = "ACTIVATING"
  BY <1>1, <1>2, Zenon DEF Objects
<1>4. PICK x : x = [s EXCEPT !.objects[o].oper = "ACTIVATING"]
  BY Zenon
<1>5. x = [s EXCEPT !.objects = [s.objects EXCEPT ![o] = v]]
  BY <1>2, <1>4, Zenon
<1>6. Rewrites(x, s, o, v)
  BY <1>3, <1>5, Rewriting, Zenon
<1>7. /\ x \in AgentStates /\ o \in 1..Len(x.objects) /\ x.node \in 1..Len(x.objects)
      /\ x.objects[o] = v /\ x.adopted = <<>> /\ x.node = s.node
  BY <1>6, Zenon DEF Rewrites
<1>8. PICK y : y = update_device(x, o)
  BY Zenon
<1>9. OwnStored(y, x, o)
  BY <1>7, <1>8, UpdateStores, Zenon
<1>10. /\ y \in AgentStates /\ y.adopted = <<>> /\ y.objects[y.node] = v
       /\ y.last_data = o /\ y.objects[o] = v /\ o \in 1..Len(y.objects)
       /\ y.node \in 1..Len(y.objects) /\ y.node \in {s.node, o}
  BY <1>7, <1>9, Zenon DEF OwnStored
<1>11. activate_device(s, o) = [y EXCEPT !.adopted = Append(y.adopted, o)]
  BY <1>4, <1>8, Zenon DEF activate_device
<1>12. PICK a : a = Append(y.adopted, o)
  BY Zenon
<1>13. a \in Seq(Nat) /\ Len(a) = 1 /\ a[1] = o
  BY <1>1, <1>10, <1>12
<1>14. t = [[y EXCEPT !.adopted = a] EXCEPT !.last_data = o]
  BY <1>11, <1>12, Zenon
<1>15. /\ t \in AgentStates /\ t.adopted = a /\ t.objects = y.objects
       /\ t.node = y.node /\ t.last_data = o
  BY <1>1, <1>10, <1>13, <1>14, Zenon DEF AgentStates
<1>16. Adopted(t)
  BY <1>3, <1>10, <1>13, <1>15, Zenon DEF Adopted
<1>17. Held(t)
  BY <1>10, <1>15, <1>16, Zenon DEF Held
<1> QED
  BY <1>3, <1>10, <1>15, <1>16, <1>17, Zenon DEF Stored, Activated

\* A new device: its agent activates it at once if it is added as ENABLED.
LEMMA AddedIsHeld ==
    ASSUME NEW admin \in {"PREPROVISIONED", "ENABLED"},
           NEW t, t = add_device(NewDevice(admin))
    PROVE  /\ Held(t) /\ Stored(t).oper # "ACTIVE"
           /\ admin = "ENABLED" => Adopted(t)
<1>1. PICK v : v = NewDevice(admin)
  BY Zenon
<1>2. v \in Objects /\ v.admin = admin /\ v.oper = "UNKNOWN"
  BY <1>1, Zenon DEF NewDevice, Objects
<1>3. PICK x : x = <<v, v>>
  BY Zenon
<1>4. x \in Seq(Objects) /\ Len(x) = 2 /\ x[1] = v /\ x[2] = v
  BY <1>2, <1>3
<1>5. PICK s : s = [NoDevice EXCEPT !.objects = x, !.node = 2]
  BY Zenon
<1>6. /\ s \in AgentStates /\ s.objects = x /\ s.node = 2 /\ s.last_data = 0
      /\ s.adopted = <<>>
  <2>1. s = [objects |-> x, node |-> 2, last_data |-> 0, adopted |-> <<>>]
    BY <1>5, Zenon DEF NoDevice
  <2>2. <<>> \in Seq(Nat)
    OBVIOUS
  <2> QED
    BY <1>4, <2>1, <2>2, Zenon DEF AgentStates
<1>7. t = process_update(s, 1)
  BY <1>1, <1>3, <1>5, Zenon DEF add_device
<1>8. LastAdmin(s) = "UNKNOWN"
  BY <1>6, Zenon DEF LastAdmin
<1>9. 1 \in 1..Len(s.objects) /\ 2 \in 1..Len(s.objects)
  <2>1. 1 \in 1..2 /\ 2 \in 1..2
    OBVIOUS
  <2> QED
    BY <1>4, <1>6, <2>1, Zenon
<1>10. CASE admin = "ENABLED"
  <2>1. PICK o : o = 1
    BY Zenon
  <2>2. t = [activate_device(s, o) EXCEPT !.last_data = o]
    BY <1>2, <1>4, <1>6, <1>7, <1>8, <1>10, <2>1, Zenon
       DEF process_update, Activates
  <2>3. /\ o \in 1..Len(s.objects) /\ s.node \in 1..Len(s.objects)
        /\ s.objects[o].admin = "ENABLED"
    BY <1>2, <1>4, <1>6, <1>9, <1>10, <2>1, Zenon
  <2>4. s \in AgentStates /\ s.adopted = <<>>
    BY <1>6, Zenon
  <2>5. Activated(t)
    BY <2>2, <2>3, <2>4, ActivationIsHeld, Zenon
  <2> QED
    BY <2>5, Zenon DEF Activated
<1>11. CASE admin = "PREPROVISIONED"
  <2>1. t = [s EXCEPT !.last_data = 1]
    BY <1>2, <1>4, <1>6, <1>7, <1>8, <1>11, Zenon
       DEF process_update, Activates, note_update
  <2>2. /\ t \in AgentStates /\ t.objects = x /\ t.node = 2 /\ t.last_data = 1
        /\ t.adopted = <<>>
    BY <1>6, <2>1 DEF AgentStates
  <2>3. Created(t) /\ Stored(t).oper = "UNKNOWN"
    BY <1>2, <1>4, <1>11, <2>2, Zenon DEF Created, Stored
  <2>4. Held(t)
    BY <1>4, <1>6, <1>9, <2>2, <2>3, Zenon DEF Held
  <2> QED
    BY <1>11, <2>3, <2>4, Zenon
<1> QED
  BY <1>10, <1>11, Zenon

\* done is what the services made of s by storing object o.
Enables(done, s, o) ==
    \/ done.node # o /\ done.adopted = s.adopted
    \/ done.node = o /\ Held(done) /\ Adopted(done)

\* ActivateDevice stores a copy with the admin state ENABLED.  If the device
\* was only created, its agent activates it; otherwise nothing happens.
LEMMA EnabledIsHeld ==
    ASSUME NEW s, Held(s),
           NEW copy, copy = get_device(s), NEW o, o = Newest(copy),
           NEW done,
           done = UpdateNode([copy EXCEPT !.objects[o].admin = "ENABLED"], o)
    PROVE  Enables(done, s, o)
<1>1. /\ s \in AgentStates /\ s.node \in 1..Len(s.objects)
      /\ s.last_data \in 1..Len(s.objects)
      /\ s.objects[s.last_data] = s.objects[s.node]
  BY Zenon DEF Held
<1>2. PICK w : w = s.objects[s.node]
  BY Zenon
<1>3. w \in Objects /\ Len(s.objects) \in Nat
  BY <1>1, <1>2 DEF AgentStates
<1>4. copy = [s EXCEPT !.objects = Append(s.objects, w)]
  BY <1>2, Zenon DEF get_device, Stored
<1>5. Copies(copy, s, w)
  BY <1>1, <1>3, <1>4, Copying, Zenon
<1>6. o = Len(copy.objects)
  BY Zenon DEF Newest
<1>7. /\ copy \in AgentStates /\ copy.objects[o] = w /\ o = Len(s.objects) + 1
      /\ copy.node = s.node /\ copy.adopted = s.adopted
      /\ copy.last_data = s.last_data
      /\ \A i \in 1..Len(s.objects) : copy.objects[i] = s.objects[i]
  BY <1>5, <1>6, Zenon DEF Copies
<1>8. /\ o \in 1..Len(copy.objects) /\ o \in Nat
      /\ \A i \in 1..Len(s.objects) :
            i # o /\ i \in 1..Len(copy.objects) /\ i # 0
  BY <1>3, <1>6, <1>7
<1>9. PICK v : v = [w EXCEPT !.admin = "ENABLED"]
  BY Zenon
<1>10. v \in Objects /\ v.admin = "ENABLED"
  BY <1>3, <1>9, Zenon DEF Objects
<1>11. PICK t : t = [copy EXCEPT !.objects[o].admin = "ENABLED"]
  BY Zenon
<1>12. Rewrites(t, copy, o, v)
  <2>1. t = [copy EXCEPT !.objects = [copy.objects EXCEPT ![o] = v]]
    BY <1>7, <1>9, <1>11, Zenon
  <2> QED
    BY <1>7, <1>8, <1>10, <2>1, Rewriting, Zenon
<1>13. /\ t \in AgentStates /\ o \in 1..Len(t.objects) /\ t.objects[o] = v
       /\ t.node = s.node /\ t.last_data = s.last_data /\ t.adopted = s.adopted
       /\ t.objects[s.node] = w /\ t.objects[s.last_data] = w
  BY <1>1, <1>2, <1>7, <1>8, <1>12, Zenon DEF Rewrites
<1>14. done = UpdateNode(t, o)
  BY <1>11, Zenon
<1>15. CASE w = v
  <2>1. done = t
    BY <1>13, <1>14, <1>15, Zenon DEF UpdateNode, Stored
  <2> QED
    BY <1>1, <1>8, <1>13, <2>1, Zenon DEF Enables
<1>16. CASE w # v
  <2>1. w.admin # "ENABLED"
    BY <1>3, <1>9, <1>16, Zenon DEF Objects
  <2>2. w.admin = "PREPROVISIONED" /\ s.adopted = <<>>
    BY <1>2, <2>1, Zenon DEF Held, Adopted, Created
  <2>3. PICK x : x = [t EXCEPT !.node = o]
    BY Zenon
  <2>4. /\ x \in AgentStates /\ x.objects = t.objects /\ x.node = o
        /\ x.last_data = s.last_data /\ x.adopted = <<>>
    BY <1>8, <1>13, <2>2, <2>3, Zenon DEF AgentStates
  <2>5. done = process_update(x, o)
    BY <1>13, <1>14, <1>16, <2>3, Zenon DEF UpdateNode, Stored
  <2>6. LastAdmin(x) = "PREPROVISIONED"
    BY <1>1, <1>8, <1>13, <2>2, <2>4, Zenon DEF LastAdmin
  <2>7. done = [activate_device(x, o) EXCEPT !.last_data = o]
    BY <1>10, <1>13, <2>4, <2>5, <2>6, Zenon DEF process_update, Activates
  <2>8. /\ o \in 1..Len(x.objects) /\ x.node \in 1..Len(x.objects)
        /\ x.objects[o].admin = "ENABLED"
    BY <1>10, <1>13, <2>4, Zenon
  <2>9. Activated(done) /\ done.node \in {x.node, o}
    BY <2>4, <2>7, <2>8, ActivationIsHeld, Zenon
  <2>10. done.node = o
    BY <2>4, <2>9, Zenon
  <2> QED
    BY <2>9, <2>10, Zenon DEF Activated, Enables
<1> QED
  BY <1>15, <1>16, Zenon

-----------------------------------------------------------------------------
(***************************************************************************)
(* The select thread                                                       *)
(***************************************************************************)

\* Between the listing and the clearing of the flag every port was listed or
\* missed, whatever the flag says.
Listening ==
    /\ DOMAIN thread = {"pc", "sockets"}
    /\ ListensUnlessMissed
    /\ thread.pc = "clear" =>
        \A i \in ports : i \in thread.sockets \/ i \in missed \/ stopped

listening == <<ports, ports_changed, stopped, thread, missed>>

\* What a step does to the variables that the invariant is about.
LEMMA FrameSteps ==
    ASSUME [Next]_vars
    PROVE  \/ SelectLoop
           \/ add_interface(Eth) /\ UNCHANGED <<stopped, thread>>
           \/ \E drop : StopFrames(drop)
           \/ UNCHANGED listening
<1> USE DEF frameVars, listening
<1>1. CASE Thread_Step
  BY <1>1, Zenon DEF Thread_Step
<1>2. CASE ActivateDevice
  <2>1. PICK adopts : AdoptOlt(adopts)
    BY <1>2, Zenon DEF ActivateDevice
  <2> QED
    BY <2>1, Zenon DEF AdoptOlt
<1>3. CASE CreateDevice \/ LaunchOlt \/ DetectOnus
  BY <1>3, Zenon DEF CreateDevice, LaunchOlt, DetectOnus
<1>4. CASE \E u \in Onus : OnuActivation(u)
  BY <1>4, Zenon DEF OnuActivation
<1>5. CASE Dispatch
  BY <1>5, Zenon DEF Dispatch
<1>6. CASE \E r \in Requests : Answer(r) \/ Lose(r)
  BY <1>6, Zenon DEF Answer, Arrive, Lose
<1>7. CASE \E f \in Packets \cup {Foreign} : Traffic(f)
  BY <1>7, Zenon DEF Traffic, Arrive
<1>8. CASE Shutdown
  BY <1>8, Zenon DEF Shutdown
<1>9. CASE UNCHANGED vars
  BY <1>9, Zenon DEF vars
<1> QED
  BY <1>1, <1>2, <1>3, <1>4, <1>5, <1>6, <1>7, <1>8, <1>9, Zenon DEF Next,
     Reactor

LEMMA ListeningStep == Listening /\ [Next]_vars => Listening'
<1> SUFFICES ASSUME Listening, [Next]_vars PROVE Listening'
  OBVIOUS
<1>1. /\ DOMAIN thread = {"pc", "sockets"}
      /\ "pc" \in DOMAIN thread /\ "sockets" \in DOMAIN thread
  BY Zenon DEF Listening
<1>2. \A i \in ports : \/ i \in thread.sockets \/ i \in missed
                       \/ ports_changed \/ stopped \/ thread.pc = "list"
  BY Zenon DEF Listening, ListensUnlessMissed
<1>3. thread.pc = "clear" =>
        \A i \in ports : i \in thread.sockets \/ i \in missed \/ stopped
  BY Zenon DEF Listening
<1>4. ASSUME NEW pc
      PROVE  /\ DOMAIN Thread(pc) = DOMAIN thread /\ Thread(pc).pc = pc
             /\ Thread(pc).sockets = thread.sockets
  BY <1>1, Zenon DEF Thread
<1>5. CASE List
  <2>1. CASE stopped
    BY <1>1, <1>4, <1>5, <2>1, Zenon DEF List, Listening, ListensUnlessMissed
  <2>2. CASE ~stopped
    <3>1. PICK t : t = Thread("clear")
      BY Zenon
    <3>2. DOMAIN t = {"pc", "sockets"} /\ t.pc = "clear"
      BY <1>1, <1>4, <3>1, Zenon
    <3>3. thread' = [t EXCEPT !.sockets = ports] /\ ports' = ports
      BY <1>5, <2>2, <3>1, Zenon DEF List
    <3>4. /\ DOMAIN thread' = {"pc", "sockets"}
          /\ thread'.sockets = ports' /\ thread'.pc = "clear"
      BY <3>2, <3>3, Zenon
    <3> QED
      BY <3>4, Zenon DEF Listening, ListensUnlessMissed
  <2> QED
    BY <2>1, <2>2, Zenon
<1>6. CASE Clear
  <2>1. /\ thread.pc = "clear" /\ thread' = Thread("check")
        /\ ports' = ports /\ stopped' = stopped /\ missed' = missed
    BY <1>6, Zenon DEF Clear
  <2>2. /\ DOMAIN thread' = {"pc", "sockets"}
        /\ thread'.sockets = thread.sockets /\ thread'.pc # "clear"
    BY <1>1, <1>4, <2>1, Zenon
  <2> QED
    BY <1>3, <2>1, <2>2, Zenon DEF Listening, ListensUnlessMissed
<1>7. CASE Check
  <2>1. /\ thread.pc = "check" /\ UNCHANGED <<ports, ports_changed, stopped, missed>>
        /\ thread' = Thread("done") \/ thread' = Thread("select")
    BY <1>7, Zenon DEF Check
  <2>2. /\ DOMAIN thread' = {"pc", "sockets"} /\ thread.pc # "list"
        /\ thread'.sockets = thread.sockets /\ thread'.pc # "clear"
    BY <1>1, <1>4, <2>1, Zenon
  <2> QED
    BY <1>2, <2>1, <2>2, Zenon DEF Listening, ListensUnlessMissed
<1>8. ASSUME NEW good, Select(good) PROVE Listening'
  <2>1. /\ thread.pc = "select" /\ UNCHANGED <<ports, ports_changed, stopped, missed>>
        /\ thread' = Thread("list") \/ thread' = Thread("check")
    BY <1>8, Zenon DEF Select
  <2>2. /\ DOMAIN thread' = {"pc", "sockets"} /\ thread.pc # "list"
        /\ thread'.sockets = thread.sockets /\ thread'.pc # "clear"
    BY <1>1, <1>4, <2>1, Zenon
  <2> QED
    BY <1>2, <2>1, <2>2, Zenon DEF Listening, ListensUnlessMissed
<1>9. CASE SelectFails
  <2>1. thread' = Thread("list")
    BY <1>9, Zenon DEF SelectFails
  <2>2. DOMAIN thread' = {"pc", "sockets"} /\ thread'.pc = "list"
    BY <1>1, <1>4, <2>1, Zenon
  <2> QED
    BY <2>2, Zenon DEF Listening, ListensUnlessMissed
<1>10. CASE add_interface(Eth) /\ UNCHANGED <<stopped, thread>>
  BY <1>1, <1>3, <1>10, Zenon DEF add_interface, Listening, ListensUnlessMissed
<1>11. ASSUME NEW drop, StopFrames(drop) PROVE Listening'
  BY <1>1, <1>11, Zenon DEF StopFrames, Listening, ListensUnlessMissed
<1>12. CASE UNCHANGED listening
  BY <1>12, Zenon DEF listening, Listening, ListensUnlessMissed
<1> QED
  BY <1>5, <1>6, <1>7, <1>8, <1>9, <1>10, <1>11, <1>12, FrameSteps, Zenon
     DEF SelectLoop

-----------------------------------------------------------------------------
(***************************************************************************)
(* The agents and the adapters                                             *)
(***************************************************************************)

\* The devices fit together, and an ONU with an agent was adopted.
Devs ==
    /\ DOMAIN device = Devices /\ device_agents \subseteq Devices
    /\ \A d \in device_agents : Held(device[d])
    /\ \A d \in Devices \ device_agents : device[d] = NoDevice
    /\ \A u \in Onus \cap device_agents : Adopted(device[u])

\* Whatever the adapters are about to do is about a device that was adopted.
OltAdopted == Olt \in device_agents /\ Adopted(device[Olt])

Waits ==
    /\ DOMAIN olt = {"io_port", "queue", "pc"}
    /\ Olt \in timers \/ olt.pc = "ping" => OltAdopted
    /\ DOMAIN onu = {"pending", "waiting"}
    /\ onu.waiting \in Seq(Onus \cap device_agents)
    /\ timers \cap Onus \subseteq device_agents

\* Requests were sent when no more answers had been received than now.
Fresh ==
    /\ answers \in Nat
    /\ exchange \in [Onus -> [from : Nat, took : Nat]]
    /\ \A u \in Onus : exchange[u].from <= answers
    /\ AnswerIsFresh

ProvInv == Devs /\ Waits /\ Fresh

LEMMA Names == Olt \in Devices /\ Onus \subseteq Devices /\ Olt \notin Onus
               /\ Olt # "detect" /\ "detect" \notin Onus
  BY DevicesAssumption, Zenon DEF DevicesAssumption

\* Device d, which has an agent, changes.
LEMMA DeviceChanges ==
    ASSUME Devs, NEW d \in device_agents, NEW s, Held(s), Adopted(s),
           device' = [device EXCEPT ![d] = s], device_agents' = device_agents
    PROVE  /\ Devs' /\ device'[d] = s
           /\ OltAdopted => OltAdopted'
           /\ \A e \in Devices : e # d => device'[e] = device[e]
<1>1. /\ DOMAIN device = Devices /\ d \in Devices
  BY Zenon DEF Devs
<1>2. /\ DOMAIN device' = Devices /\ device'[d] = s
      /\ \A e \in Devices : e # d => device'[e] = device[e]
  BY <1>1, Zenon
<1>3. Devs'
  BY <1>1, <1>2, Zenon DEF Devs
<1>4. OltAdopted => OltAdopted'
  BY <1>1, <1>2, Names, Zenon DEF OltAdopted
<1> QED
  BY <1>2, <1>3, <1>4, Zenon

\* Agents and devices stay, so that who was waited for still is.
LEMMA WaitingStays ==
    ASSUME Waits, device_agents \subseteq device_agents'
    PROVE  onu.waiting \in Seq(Onus \cap device_agents')
<1>1. PICK s, A, B : /\ s = onu.waiting /\ A = Onus \cap device_agents
                     /\ B = Onus \cap device_agents'
  BY Zenon
<1>2. s \in Seq(A) /\ A \subseteq B
  BY <1>1, Zenon DEF Waits
<1>3. s \in Seq(B)
  BY <1>2
<1> QED
  BY <1>1, <1>3, Zenon

LEMMA CreateKeeps ==
    ASSUME ProvInv, CreateDevice
    PROVE  ProvInv'
<1>1. PICK s : s = add_device(NewDevice("PREPROVISIONED"))
  BY Zenon
<1>2. Held(s)
  BY <1>1, AddedIsHeld, Zenon
<1>3. /\ Olt \notin device_agents /\ device' = [device EXCEPT ![Olt] = s]
      /\ device_agents' = device_agents \cup {Olt}
      /\ olt' = olt /\ timers' = timers /\ onu' = onu
      /\ answers' = answers /\ exchange' = exchange
  BY <1>1, Zenon DEF CreateDevice, oltVars, histVars
<1>4. DOMAIN device = Devices /\ device_agents \subseteq Devices
  BY Zenon DEF ProvInv, Devs
<1>5. /\ DOMAIN device' = Devices /\ device'[Olt] = s
      /\ \A e \in Devices : e # Olt => device'[e] = device[e]
  BY <1>3, <1>4, Names, Zenon
<1>6. Devs'
  BY <1>2, <1>3, <1>4, <1>5, Names, Zenon DEF ProvInv, Devs
<1>7. ~OltAdopted /\ Waits
  BY <1>3, Zenon DEF ProvInv, OltAdopted
<1>8. onu.waiting \in Seq(Onus \cap device_agents')
  BY <1>3, <1>7, WaitingStays, Zenon
<1>9. Waits'
  BY <1>3, <1>7, <1>8, Zenon DEF Waits
<1>10. AnswerIsFresh'
  BY <1>3, <1>4, <1>5, Names, Zenon DEF ProvInv, Fresh, AnswerIsFresh, Active
<1>11. Fresh'
  BY <1>3, <1>10, Zenon DEF ProvInv, Fresh
<1> QED
  BY <1>6, <1>9, <1>11, Zenon DEF ProvInv

LEMMA ActivateKeeps ==
    ASSUME ProvInv, ActivateDevice
    PROVE  ProvInv'
<1>1. PICK copy, o, done :
        /\ copy = get_device(device[Olt]) /\ o = Newest(copy)
        /\ done = UpdateNode([copy EXCEPT !.objects[o].admin = "ENABLED"], o)
        /\ device' = [device EXCEPT ![Olt] =
                        IF done.node = o THEN done ELSE device[Olt]]
        /\ AdoptOlt(Len(done.adopted) > Len(device[Olt].adopted))
  BY Zenon DEF ActivateDevice
<1>2. /\ Olt \in device_agents /\ device_agents' = device_agents /\ onu' = onu
      /\ answers' = answers /\ exchange' = exchange
  BY Zenon DEF ActivateDevice, histVars
<1>3. Devs /\ Waits /\ Fresh /\ Held(device[Olt]) /\ DOMAIN device = Devices
  BY <1>2, Zenon DEF ProvInv, Devs
<1>4. olt' = olt \/ olt' = [olt EXCEPT !.io_port = TRUE]
  BY <1>1, Zenon DEF AdoptOlt
<1>5. DOMAIN olt' = {"io_port", "queue", "pc"} /\ olt'.pc = olt.pc
  BY <1>3, <1>4, Zenon DEF Waits
<1>6. \/ done.node # o /\ done.adopted = device[Olt].adopted
      \/ done.node = o /\ Held(done) /\ Adopted(done)
  <2>1. Enables(done, device[Olt], o)
    BY <1>1, <1>3, EnabledIsHeld, Zenon
  <2> QED
    BY <2>1, Zenon DEF Enables
<1>7. CASE done.node # o /\ done.adopted = device[Olt].adopted
  <2>1. device' = [device EXCEPT ![Olt] = device[Olt]]
    BY <1>1, <1>7, Zenon
  <2>2. DOMAIN device' = Devices /\ \A d \in Devices : device'[d] = device[d]
    BY <1>3, <2>1, Names, Zenon
  <2>3. ~(Len(done.adopted) > Len(device[Olt].adopted))
    <3>1. Len(device[Olt].adopted) \in Nat
      <4>1. device[Olt].adopted \in Seq(Nat)
        BY <1>3, Zenon DEF Held, AgentStates
      <4> QED
        BY <4>1
    <3>2. ~(Len(device[Olt].adopted) > Len(device[Olt].adopted))
      BY <3>1
    <3> QED
      BY <1>7, <3>2, Zenon
  <2>4. timers' = timers
    BY <1>1, <2>3, Zenon DEF AdoptOlt
  <2>5. Devs'
    BY <1>2, <1>3, <2>2, Zenon DEF Devs
  <2>6. Waits'
    BY <1>2, <1>3, <1>5, <2>2, <2>4, Names, Zenon DEF Waits, OltAdopted
  <2>7. Fresh'
    BY <1>2, <1>3, <2>2, Names, Zenon DEF Fresh, AnswerIsFresh, Active
  <2> QED
    BY <2>5, <2>6, <2>7, Zenon DEF ProvInv
<1>8. CASE done.node = o /\ Held(done) /\ Adopted(done)
  <2>1. device' = [device EXCEPT ![Olt] = done]
    BY <1>1, <1>8, Zenon
  <2>2. /\ Devs' /\ device'[Olt] = done
        /\ \A e \in Devices : e # Olt => device'[e] = device[e]
    BY <1>2, <1>3, <1>8, <2>1, DeviceChanges, Zenon
  <2>3. OltAdopted'
    BY <1>2, <1>8, <2>2, Zenon DEF OltAdopted
  <2>4. timers' \cap Onus \subseteq device_agents'
    <3>1. timers' = timers \/ timers' = timers \cup {Olt}
      BY <1>1, Zenon DEF AdoptOlt
    <3> QED
      BY <1>2, <1>3, <3>1, Names, Zenon DEF Waits
  <2>5. Waits'
    BY <1>2, <1>3, <1>5, <2>3, <2>4, Zenon DEF Waits
  <2>6. Fresh'
    BY <1>2, <1>3, <2>2, Names, Zenon DEF Fresh, AnswerIsFresh, Active
  <2> QED
    BY <2>2, <2>5, <2>6, Zenon DEF ProvInv
<1> QED
  BY <1>6, <1>7, <1>8, Zenon

\* The OLT's adapter alone: its fields and the timers.
LEMMA OltKeeps ==
    ASSUME ProvInv, DOMAIN olt' = {"io_port", "queue", "pc"},
           timers' \subseteq timers,
           Olt \in timers' \/ olt'.pc = "ping" => Olt \in timers \/ olt.pc = "ping",
           UNCHANGED <<device, device_agents, onu, answers, exchange>>
    PROVE  ProvInv'
<1>1. Devs' /\ Fresh'
  BY Zenon DEF ProvInv, Devs, Fresh, AnswerIsFresh, Active
<1>2. Waits'
  BY Zenon DEF ProvInv, Waits, OltAdopted
<1> QED
  BY <1>1, <1>2, Zenon DEF ProvInv

LEMMA LaunchKeeps ==
    ASSUME ProvInv, LaunchOlt \/ DetectOnus
    PROVE  ProvInv'
<1>1. DOMAIN olt = {"io_port", "queue", "pc"}
  BY Zenon DEF ProvInv, Waits
<1>2. UNCHANGED <<device, device_agents, onu, answers, exchange>>
  BY Zenon DEF LaunchOlt, DetectOnus, deviceVars, histVars
<1>3. CASE LaunchOlt
  <2>1. /\ Olt \in timers /\ timers' = timers \ {Olt}
        /\ olt' = [olt EXCEPT !.queue = <<>>, !.pc = "ping"]
    BY <1>3, Zenon DEF LaunchOlt
  <2>2. DOMAIN olt' = {"io_port", "queue", "pc"}
    BY <1>1, <2>1, Zenon
  <2>3. timers' \subseteq timers
    BY <2>1, Zenon
  <2> QED
    BY <1>2, <2>1, <2>2, <2>3, OltKeeps, Zenon
<1>4. CASE DetectOnus
  <2>1. /\ timers' = timers \ {"detect"}
        /\ \/ olt' = [olt EXCEPT !.pc = "links"]
           \/ olt' = [olt EXCEPT !.queue = Tail(@), !.pc = "failed"]
    BY <1>4, Zenon DEF DetectOnus
  <2>2. DOMAIN olt' = {"io_port", "queue", "pc"} /\ olt'.pc # "ping"
    BY <1>1, <2>1, Zenon
  <2>3. timers' \subseteq timers
    BY <2>1, Zenon
  <2> QED
    BY <1>2, <2>2, <2>3, OltKeeps, Zenon
<1> QED
  BY <1>3, <1>4, Zenon

\* An ONU is contacted and sends its message: it is not active until an
\* answer comes, and all answers until now are older.
LEMMA OnuActivationKeeps ==
    ASSUME ProvInv, NEW u \in Onus, OnuActivation(u)
    PROVE  ProvInv'
<1>1. Devs /\ Waits /\ Fresh /\ DOMAIN olt = {"io_port", "queue", "pc"}
  BY Zenon DEF ProvInv, Waits
<1>2. /\ u \in timers /\ timers' = timers \ {u} /\ olt' = olt
      /\ device_agents' = device_agents /\ answers' = answers
      /\ device' = [device EXCEPT ![u] = Contacted(device[u])]
  BY Zenon DEF OnuActivation
<1>3. \/ onu' = onu /\ exchange' = exchange
      \/ /\ onu' = [pending |-> <<>>, waiting |-> Append(onu.waiting, u)]
         /\ exchange' = [exchange EXCEPT ![u].from = answers]
  BY Zenon DEF OnuActivation
<1>4. u \in device_agents
  BY <1>1, <1>2, Zenon DEF Waits
<1>5. PICK s : s = Contacted(device[u])
  BY Zenon
<1>6. Held(s) /\ Adopted(s) /\ Stored(s).oper = "ACTIVATING"
  BY <1>1, <1>4, <1>5, ContactedIsHeld, Zenon DEF Devs
<1>7. /\ Devs' /\ device'[u] = s
      /\ OltAdopted => OltAdopted'
      /\ \A e \in Devices : e # u => device'[e] = device[e]
  <2>1. device' = [device EXCEPT ![u] = s]
    BY <1>2, <1>5, Zenon
  <2> QED
    BY <1>1, <1>2, <1>4, <1>6, <2>1, DeviceChanges, Zenon
<1>8. Waits'
  <2>1. /\ DOMAIN onu' = {"pending", "waiting"}
        /\ onu'.waiting = onu.waiting \/ onu'.waiting = Append(onu.waiting, u)
    <3>1. CASE onu' = onu
      BY <1>1, <3>1, Zenon DEF Waits
    <3>2. CASE onu' = [pending |-> <<>>, waiting |-> Append(onu.waiting, u)]
      BY <3>2, Zenon
    <3> QED
      BY <1>3, <3>1, <3>2, Zenon
  <2>2. onu'.waiting \in Seq(Onus \cap device_agents')
    <3>1. PICK w, A : w = onu.waiting /\ A = Onus \cap device_agents
      BY Zenon
    <3>2. w \in Seq(A) /\ u \in A
      BY <1>1, <1>4, <3>1, Zenon DEF Waits
    <3>3. Append(w, u) \in Seq(A)
      BY <3>2
    <3> QED
      BY <1>2, <2>1, <3>1, <3>2, <3>3, Zenon
  <2>3. timers' \subseteq timers
    BY <1>2, Zenon
  <2> QED
    BY <1>1, <1>2, <1>7, <2>1, <2>2, <2>3, Zenon DEF Waits
<1>9. exchange \in [Onus -> [from : Nat, took : Nat]] /\ answers \in Nat
  BY <1>1, Zenon DEF Fresh
<1>10. /\ exchange' \in [Onus -> [from : Nat, took : Nat]]
       /\ exchange'[u].from \in {exchange[u].from, answers}
       /\ \A x \in Onus : x # u => exchange'[x] = exchange[x]
  BY <1>3, <1>9, Zenon
<1>11. \A x \in Onus : exchange'[x].from <= answers'
  <2>1. answers <= answers
    BY <1>9
  <2> QED
    BY <1>1, <1>2, <1>10, <2>1, Zenon DEF Fresh
<1>12. AnswerIsFresh'
  <2>1. ASSUME NEW x \in Onus, Active(x)' PROVE exchange'[x].took > exchange'[x].from
    <3>1. x # u
      BY <1>6, <1>7, <2>1, Zenon DEF Active, Stored
    <3>2. device'[x] = device[x] /\ exchange'[x] = exchange[x]
      BY <1>7, <1>10, <3>1, Names, Zenon
    <3>3. Active(x)
      BY <1>2, <2>1, <3>2, Zenon DEF Active
    <3> QED
      BY <1>1, <3>2, <3>3, Zenon DEF Fresh, AnswerIsFresh
  <2> QED
    BY <2>1, Zenon DEF AnswerIsFresh
<1>13. Fresh'
  BY <1>2, <1>9, <1>10, <1>11, <1>12, Zenon DEF Fresh
<1> QED
  BY <1>7, <1>8, <1>13, Zenon DEF ProvInv

\* The OLT answers the ping: it is shown as active.
LEMMA OltContactedKeeps ==
    ASSUME ProvInv, olt.pc = "ping", OltContacted
    PROVE  ProvInv'
<1>1. Devs /\ Waits /\ Fresh /\ OltAdopted /\ DOMAIN olt = {"io_port", "queue", "pc"}
  BY Zenon DEF ProvInv, Waits
<1>2. /\ device' = [device EXCEPT ![Olt] = ShownActive(Contacted(device[Olt]), TRUE)]
      /\ timers' = timers \cup {"detect"} /\ olt' = [olt EXCEPT !.pc = "idle"]
      /\ UNCHANGED <<device_agents, onu, answers, exchange>>
  BY Zenon DEF OltContacted, histVars
<1>3. Olt \in device_agents /\ Adopted(device[Olt]) /\ Held(device[Olt])
  BY <1>1, Zenon DEF OltAdopted, Devs
<1>4. PICK c : c = Contacted(device[Olt])
  BY Zenon
<1>5. Held(c) /\ Adopted(c)
  BY <1>3, <1>4, ContactedIsHeld, Zenon
<1>6. PICK s : s = ShownActive(c, TRUE)
  BY Zenon
<1>7. Held(s) /\ Adopted(s)
  BY <1>5, <1>6, ShownIsHeld, Zenon
<1>8. device' = [device EXCEPT ![Olt] = s]
  BY <1>2, <1>4, <1>6, Zenon
<1>9. /\ Devs' /\ (OltAdopted => OltAdopted')
      /\ \A e \in Devices : e # Olt => device'[e] = device[e]
  BY <1>1, <1>2, <1>3, <1>7, <1>8, DeviceChanges, Zenon
<1>10. DOMAIN olt' = {"io_port", "queue", "pc"}
  BY <1>1, <1>2, Zenon
<1>11. Waits'
  BY <1>1, <1>2, <1>9, <1>10, Names, Zenon DEF Waits
<1>12. Fresh'
  <2>1. ASSUME NEW x \in Onus, Active(x)' PROVE exchange'[x].took > exchange'[x].from
    <3>1. device'[x] = device[x]
      BY <1>9, Names, Zenon
    <3>2. Active(x)
      BY <1>2, <2>1, <3>1, Zenon DEF Active
    <3> QED
      BY <1>1, <1>2, <3>2, Zenon DEF Fresh, AnswerIsFresh
  <2>2. AnswerIsFresh'
    BY <2>1, Zenon DEF AnswerIsFresh
  <2> QED
    BY <1>1, <1>2, <2>2, Zenon DEF Fresh
<1> QED
  BY <1>9, <1>11, <1>12, Zenon DEF ProvInv

\* The OLT reports its ONUs: each is added and adopted at once, and none is
\* active yet.
LEMMA OnusReportedKeeps ==
    ASSUME ProvInv, OnusReported
    PROVE  ProvInv'
<1>1. Devs /\ Waits /\ Fresh /\ DOMAIN olt = {"io_port", "queue", "pc"}
  BY Zenon DEF ProvInv, Waits
<1>2. PICK s : s = add_device(NewDevice("ENABLED"))
  BY Zenon
<1>3. Held(s) /\ Adopted(s) /\ Stored(s).oper # "ACTIVE"
  BY <1>2, AddedIsHeld, Zenon
<1>4. PICK us \in SUBSET Onus, pc \in {"idle", "failed"} :
        /\ device' = [d \in Devices |-> IF d \in us THEN s ELSE device[d]]
        /\ device_agents' = device_agents \cup us
        /\ timers' = timers \cup us /\ olt' = [olt EXCEPT !.pc = pc]
        /\ UNCHANGED <<onu, answers, exchange>>
  BY <1>2, Zenon DEF OnusReported, child_devices_detected, histVars
<1>5. /\ DOMAIN device' = Devices
      /\ \A u \in us : device'[u] = s
      /\ \A d \in Devices \ us : device'[d] = device[d]
  BY <1>4, Names, Zenon
<1>6. Devs'
  BY <1>1, <1>3, <1>4, <1>5, Names, Zenon DEF Devs
<1>7. OltAdopted => OltAdopted'
  BY <1>4, <1>5, Names, Zenon DEF OltAdopted
<1>8. DOMAIN olt' = {"io_port", "queue", "pc"} /\ olt'.pc # "ping"
  BY <1>1, <1>4, Zenon
<1>9. Olt \in timers' => Olt \in timers
  BY <1>4, Names, Zenon
<1>10. onu'.waiting \in Seq(Onus \cap device_agents')
  BY <1>1, <1>4, WaitingStays, Zenon
<1>11. Waits'
  BY <1>1, <1>4, <1>7, <1>8, <1>9, <1>10, Zenon DEF Waits
<1>12. AnswerIsFresh'
  <2>1. ASSUME NEW u \in Onus, Active(u)' PROVE Active(u)
    <3>1. u \notin us
      BY <1>3, <1>5, <2>1, Zenon DEF Active, Stored
    <3> QED
      BY <1>4, <1>5, <2>1, <3>1, Names, Zenon DEF Active
  <2> QED
    BY <1>1, <1>4, <2>1, Zenon DEF AnswerIsFresh, Fresh
<1>13. Fresh'
  BY <1>1, <1>4, <1>12, Zenon DEF Fresh
<1> QED
  BY <1>6, <1>11, <1>13, Zenon DEF ProvInv

\* A message comes from an ONU: whoever has waited longest takes it, and it
\* is newer than its request.
LEMMA OnuAnsweredKeeps ==
    ASSUME ProvInv, OnuAnswered, UNCHANGED <<device_agents, olt, timers>>
    PROVE  ProvInv'
<1>1. /\ Devs /\ Waits /\ Fresh /\ DOMAIN onu = {"pending", "waiting"}
      /\ answers \in Nat /\ exchange \in [Onus -> [from : Nat, took : Nat]]
      /\ answers' = answers + 1
  BY Zenon DEF ProvInv, Waits, Fresh, OnuAnswered
<1>2. answers' \in Nat /\ answers <= answers'
  BY <1>1
<1>3. ASSUME NEW n \in Nat, n <= answers PROVE n < answers' /\ n <= answers'
  BY <1>1, <1>3
<1>4. CASE onu.waiting = <<>>
  <2>1. /\ onu' = [onu EXCEPT !.pending = Append(onu.pending, answers + 1)]
        /\ UNCHANGED <<device, exchange>>
    BY <1>4, Zenon DEF OnuAnswered
  <2>2. DOMAIN onu' = {"pending", "waiting"} /\ onu'.waiting = onu.waiting
    BY <1>1, <2>1, Zenon
  <2>3. Devs'
    BY <1>1, <2>1, Zenon DEF Devs
  <2>4. Waits'
    BY <1>1, <2>1, <2>2, Zenon DEF Waits, OltAdopted
  <2>5. \A x \in Onus : exchange[x].from \in Nat
    BY <1>1, Zenon
  <2>6. Fresh'
    BY <1>1, <1>2, <1>3, <2>1, <2>5, Zenon DEF Fresh, AnswerIsFresh, Active
  <2> QED
    BY <2>3, <2>4, <2>6, Zenon DEF ProvInv
<1>5. CASE onu.waiting # <<>>
  <2>1. PICK u : u = Head(onu.waiting)
    BY Zenon
  <2>2. /\ onu' = [onu EXCEPT !.waiting = Tail(onu.waiting)]
        /\ device' = [device EXCEPT ![u] = ShownActive(device[u], FALSE)]
        /\ exchange' = [exchange EXCEPT ![u].took = answers + 1]
    BY <1>5, <2>1, Zenon DEF OnuAnswered
  <2>3. u \in Onus \cap device_agents /\ Tail(onu.waiting) \in Seq(Onus \cap device_agents)
    <3>1. PICK w, A : w = onu.waiting /\ A = Onus \cap device_agents
      BY Zenon
    <3>2. w \in Seq(A) /\ w # <<>>
      BY <1>1, <1>5, <3>1, Zenon DEF Waits
    <3>3. Head(w) \in A /\ Tail(w) \in Seq(A)
      BY <3>2
    <3> QED
      BY <2>1, <3>1, <3>3, Zenon
  <2>4. Held(device[u]) /\ Adopted(device[u])
    BY <1>1, <2>3, Zenon DEF Devs
  <2>5. PICK s : s = ShownActive(device[u], FALSE)
    BY Zenon
  <2>6. Held(s) /\ Adopted(s)
    BY <2>4, <2>5, ShownIsHeld, Zenon
  <2>7. device' = [device EXCEPT ![u] = s]
    BY <2>2, <2>5, Zenon
  <2>8. /\ Devs' /\ (OltAdopted => OltAdopted')
        /\ \A e \in Devices : e # u => device'[e] = device[e]
    BY <1>1, <2>3, <2>6, <2>7, DeviceChanges, Zenon
  <2>9. DOMAIN onu' = {"pending", "waiting"} /\ onu'.waiting = Tail(onu.waiting)
    BY <1>1, <2>2, Zenon
  <2>10. Waits'
    BY <1>1, <2>3, <2>8, <2>9, Zenon DEF Waits
  <2>11. /\ exchange' \in [Onus -> [from : Nat, took : Nat]]
         /\ exchange'[u].took = answers' /\ exchange'[u].from = exchange[u].from
         /\ \A x \in Onus : x # u => exchange'[x] = exchange[x]
    BY <1>1, <1>2, <2>2, <2>3, Zenon
  <2>12. \A x \in Onus : exchange[x].from \in Nat /\ exchange'[x].from = exchange[x].from
    BY <1>1, <2>11, Zenon
  <2>13. \A x \in Onus : exchange'[x].from <= answers' /\ exchange'[x].from < answers'
    BY <1>1, <1>3, <2>12, Zenon DEF Fresh
  <2>14. AnswerIsFresh'
    <3>1. ASSUME NEW x \in Onus, Active(x)' PROVE exchange'[x].took > exchange'[x].from
      <4>1. CASE x = u
        BY <2>11, <2>13, <4>1, Zenon
      <4>2. CASE x # u
        BY <1>1, <2>8, <2>11, <3>1, <4>2, Names, Zenon DEF Active, Fresh, AnswerIsFresh
      <4> QED
        BY <4>1, <4>2, Zenon
    <3> QED
      BY <3>1, Zenon DEF AnswerIsFresh
  <2>15. Fresh'
    BY <1>2, <2>11, <2>13, <2>14, Zenon DEF Fresh
  <2> QED
    BY <2>8, <2>10, <2>15, Zenon DEF ProvInv
<1> QED
  BY <1>4, <1>5, Zenon

\* A frame, whatever it is: the cases of _rcv_io.
LEMMA DispatchKeeps ==
    ASSUME ProvInv, NEW frame, rcv_io(frame)
    PROVE  ProvInv'
<1>1. DOMAIN olt = {"io_port", "queue", "pc"}
  BY Zenon DEF ProvInv, Waits
<1>2. CASE olt.pc = "ping" /\ OltContacted
  BY <1>2, OltContactedKeeps, Zenon
<1>3. CASE OnusReported
  BY <1>3, OnusReportedKeeps, Zenon
<1>4. CASE /\ olt.pc # "ping"
           /\ \/ olt' = [olt EXCEPT !.pc = "failed"]
              \/ olt' = [olt EXCEPT !.queue = Append(olt.queue, frame.of)]
           /\ UNCHANGED <<device, device_agents, timers, onu, answers, exchange>>
  <2>1. DOMAIN olt' = {"io_port", "queue", "pc"} /\ olt'.pc # "ping"
    BY <1>1, <1>4, Zenon
  <2> QED
    BY <1>4, <2>1, OltKeeps, Zenon
<1>5. CASE OnuAnswered /\ UNCHANGED <<device_agents, olt, timers>>
  BY <1>5, OnuAnsweredKeeps, Zenon
<1>6. CASE UNCHANGED <<device, device_agents, olt, timers, onu, answers, exchange>>
  BY <1>1, <1>6, OltKeeps, Zenon
<1> QED
  BY <1>2, <1>3, <1>4, <1>5, <1>6, Zenon DEF rcv_io, deviceVars, histVars

\* The thread, the wire and the shutdown touch none of it.
LEMMA QuietSteps ==
    ASSUME \/ Thread_Step \/ Shutdown \/ UNCHANGED vars
           \/ \E r \in Requests : Answer(r) \/ Lose(r)
           \/ \E f \in Packets \cup {Foreign} : Traffic(f)
    PROVE  UNCHANGED <<deviceVars, oltVars, histVars>>
  BY Zenon DEF Thread_Step, otherVars, Shutdown, vars, Answer, Lose, Traffic, Arrive

LEMMA ProvStep == ProvInv /\ [Next]_vars => ProvInv'
<1> SUFFICES ASSUME ProvInv, [Next]_vars PROVE ProvInv'
  BY Zenon
<1>1. CASE CreateDevice
  BY <1>1, CreateKeeps, Zenon
<1>2. CASE ActivateDevice
  BY <1>2, ActivateKeeps, Zenon
<1>3. CASE LaunchOlt \/ DetectOnus
  BY <1>3, LaunchKeeps, Zenon
<1>4. CASE \E u \in Onus : OnuActivation(u)
  BY <1>4, OnuActivationKeeps, Zenon
<1>5. CASE Dispatch
  BY <1>5, DispatchKeeps, Zenon DEF Dispatch
<1>6. CASE UNCHANGED <<deviceVars, oltVars, histVars>>
  BY <1>6, OltKeeps, Zenon DEF deviceVars, oltVars, histVars, ProvInv, Waits
<1> QED
  BY <1>1, <1>2, <1>3, <1>4, <1>5, <1>6, QuietSteps, Zenon DEF Next, Reactor

LEMMA ProvInit == Init => ProvInv
<1> SUFFICES ASSUME Init PROVE ProvInv
  BY Zenon
<1>1. Devs
  BY Zenon DEF Init, DeviceInit, Devs
<1>2. Waits
  <2>1. olt = [io_port |-> FALSE, queue |-> <<>>, pc |-> "idle"] /\ timers = {}
    BY Zenon DEF Init
  <2>2. onu = [pending |-> <<>>, waiting |-> <<>>]
    BY Zenon DEF Init
  <2>3. DOMAIN olt = {"io_port", "queue", "pc"} /\ olt.pc # "ping"
    BY <2>1, Zenon
  <2>4. DOMAIN onu = {"pending", "waiting"} /\ onu.waiting = <<>>
    BY <2>2, Zenon
  <2>5. \A A : <<>> \in Seq(A)
    OBVIOUS
  <2> QED
    BY <2>1, <2>3, <2>4, <2>5, Zenon DEF Waits
<1>3. Fresh
  <2>1. answers = 0 /\ exchange = [u \in Onus |-> [from |-> 0, took |-> 0]]
    BY Zenon DEF Init
  <2>2. /\ answers \in Nat /\ exchange \in [Onus -> [from : Nat, took : Nat]]
        /\ \A u \in Onus : exchange[u].from <= answers
    BY <2>1
  <2>3. AnswerIsFresh
    BY Zenon DEF Init, DeviceInit, AnswerIsFresh, Active
  <2> QED
    BY <2>2, <2>3, Zenon DEF Fresh
<1> QED
  BY <1>1, <1>2, <1>3, Zenon DEF ProvInv

LEMMA ProvInvariance == Spec => []ProvInv
  BY ProvInit, ProvStep, PTL DEF Spec

-----------------------------------------------------------------------------
(***************************************************************************)
(* The theorems                                                            *)
(***************************************************************************)

\* Whatever the interleaving of add_interface() and the select thread's loop,
\* a port that the thread does not read and that will not be listed again was
\* added between the two lines of run() that list the ports and clear the
\* flag, or the process is shut down.
THEOREM PortsListened == Spec => []ListensUnlessMissed
<1>1. Init => Listening
  BY Zenon DEF Init, FrameInit, Listening, ListensUnlessMissed
<1>2. Listening => ListensUnlessMissed
  BY Zenon DEF Listening, ListensUnlessMissed
<1> QED
  BY <1>1, <1>2, ListeningStep, PTL DEF Spec

\* _process_update hands a device to its adapter once, however often the
\* services enable it and whatever the adapter stores, although the config
\* tree, the agent and the adapter share the objects.
THEOREM DevicesAdoptedOnce == Spec => []AdoptedOnce
<1>1. ASSUME Devs, NEW d \in Devices PROVE Len(device[d].adopted) <= 1
  <2>1. CASE d \in device_agents
    <3>1. Adopted(device[d]) \/ Created(device[d])
      BY <1>1, <2>1, Zenon DEF Devs, Held
    <3>2. PICK n : n = Len(device[d].adopted)
      BY Zenon
    <3>3. n = 1 \/ device[d].adopted = <<>>
      BY <3>1, <3>2, Zenon DEF Adopted, Created
    <3>4. Len(<<>>) = 0
      OBVIOUS
    <3>5. n = 1 \/ n = 0
      BY <3>2, <3>3, <3>4, Zenon
    <3>6. n <= 1
      BY <3>5
    <3> QED
      BY <3>2, <3>6, Zenon
  <2>2. CASE d \notin device_agents
    <3>1. device[d] = NoDevice
      BY <1>1, <2>2, Zenon DEF Devs
    <3> QED
      BY <3>1 DEF NoDevice
  <2> QED
    BY <2>1, <2>2, Zenon
<1>2. ProvInv => AdoptedOnce
  BY <1>1, Zenon DEF ProvInv, AdoptedOnce
<1> QED
  BY <1>2, ProvInvariance, PTL

\* Between two steps of the reactor the agent's last_data is what the config
\* tree holds: no change of an enabled device is left to be propagated, which
\* _propagate_change could not do.
THEOREM LastDataFollows == Spec => []LastDataIsStored
<1>1. ProvInv => LastDataIsStored
  BY Zenon DEF ProvInv, Devs, Held, LastDataIsStored, Stored
<1> QED
  BY <1>1, ProvInvariance, PTL

\* An ONU becomes active by a message that arrived after it had sent its own,
\* although all ONUs share one queue of incoming messages, in every order of
\* answers and with any number lost or repeated.
THEOREM OnuAnswersFresh == Spec => []AnswerIsFresh
<1>1. ProvInv => AnswerIsFresh
  BY Zenon DEF ProvInv, Fresh
<1> QED
  BY <1>1, ProvInvariance, PTL

=============================================================================
