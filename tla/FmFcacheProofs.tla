--------------------------- MODULE FmFcacheProofs ---------------------------
(***************************************************************************)
(* Proofs about the file cache of FMIO for every number of slots, lfiles,  *)
(* users and descriptors, whatever the program does and whatever fails.    *)
(*                                                                         *)
(* The argument: a descriptor that FIO gives out is closed, so nobody has  *)
(* it; a slot is emptied only when it counts no user; and as each lfile is *)
(* in one slot, open descriptors tell the slots apart.                     *)
(***************************************************************************)
EXTENDS FmFcache, FiniteSetTheorems, TLAPS

(***************************************************************************)
(* The lfiles of the slots differ, even in a spoiled cache.                *)
(***************************************************************************)
Distinct ==
    /\ \A s \in InUse : slot[s].lfile \in Lfile
    /\ \A s, t \in InUse : s # t => slot[s].lfile # slot[t].lfile

(***************************************************************************)
(* Slots, users of the cache and users of QP_POPEN, in a sound cache.      *)
(***************************************************************************)
SlotsOpen == \A s \in InUse : slot[s].fd \in Fd /\ fio[slot[s].fd].lfile = slot[s].lfile

GetfdOK ==
    \A u \in User : held[u].by = "getfd" =>
        \E s \in InUse : slot[s].lfile = held[u].lfile /\ slot[s].fd = held[u].fd

PopenOK ==
    \A u \in User : held[u].by = "popen" =>
        /\ held[u].fd \in Fd /\ held[u].lfile \in Lfile
        /\ fio[held[u].fd].lfile = held[u].lfile
        /\ \A s \in InUse : held[u].fd # slot[s].fd
        /\ \A v \in User : v # u /\ held[v].by = "popen" => held[u].fd # held[v].fd

NoneOK == \A u \in User : held[u].by = "none" => held[u] = Nothing

Counts ==
    \A s \in InUse :
        /\ slot[s].nref >= 1 + Cardinality(Users(s))
        /\ "client" \notin Faults => slot[s].nref = 1 + Cardinality(Users(s))

Sound == SlotsOpen /\ GetfdOK /\ PopenOK /\ NoneOK /\ Counts

IInv == TypeOK /\ Distinct /\ LockedOut /\ (~spoiled => Sound)
-----------------------------------------------------------------------------
(***************************************************************************)
(* FIO.                                                                    *)
(***************************************************************************)
LEMMA BecomeType ==
  ASSUME NEW file \in [Fd -> [lfile : Lfile \cup {None}, write : BOOLEAN]], NEW fds,
         NEW state \in [lfile : Lfile \cup {None}, write : BOOLEAN]
  PROVE  /\ Become(file, fds, state) \in [Fd -> [lfile : Lfile \cup {None}, write : BOOLEAN]]
         /\ \A fd \in Fd : Become(file, fds, state)[fd] = IF fd \in fds THEN state ELSE file[fd]
BY DEF Become

LEMMA Shut == /\ NotOpen \in [lfile : Lfile \cup {None}, write : BOOLEAN]
              /\ Adrift \in [lfile : Lfile \cup {None}, write : BOOLEAN]
              /\ NotOpen.lfile = None /\ Adrift.lfile = None
BY DEF NotOpen, Adrift

(***************************************************************************)
(* Whatever fails, a close leaves the other descriptors alone.             *)
(***************************************************************************)
LEMMA CloseKeeps ==
  ASSUME TypeOK, NEW fds, NEW lost \in SUBSET fds, Close(fds, lost)
  PROVE  /\ fio' \in [Fd -> [lfile : Lfile \cup {None}, write : BOOLEAN]]
         /\ \A fd \in Fd \ fds : fio'[fd] = fio[fd]
<1>1. fio \in [Fd -> [lfile : Lfile \cup {None}, write : BOOLEAN]]
  BY DEF TypeOK
<1>2. /\ Closed(fio, fds) \in [Fd -> [lfile : Lfile \cup {None}, write : BOOLEAN]]
      /\ \A fd \in Fd \ fds : Closed(fio, fds)[fd] = fio[fd]
  BY <1>1, BecomeType, Shut DEF Closed
<1> DEFINE c == Closed(fio, fds)
<1>3. fio' = Become(c, lost, Adrift)
  BY DEF Close
<1> HIDE DEF c
<1>4. c \in [Fd -> [lfile : Lfile \cup {None}, write : BOOLEAN]] /\ \A fd \in Fd \ fds : c[fd] = fio[fd]
  BY <1>2 DEF c
<1>5. /\ Become(c, lost, Adrift) \in [Fd -> [lfile : Lfile \cup {None}, write : BOOLEAN]]
      /\ \A fd \in Fd : Become(c, lost, Adrift)[fd] = IF fd \in lost THEN Adrift ELSE c[fd]
  BY <1>4, BecomeType, Shut
<1> QED BY <1>3, <1>4, <1>5

(***************************************************************************)
(* A descriptor given out is nobody's: it was closed.                      *)
(***************************************************************************)
LEMMA OpenedKeeps ==
  ASSUME NEW file \in [Fd -> [lfile : Lfile \cup {None}, write : BOOLEAN]],
         NEW fd \in Fd, IsNextFd(file, fd), NEW f \in Lfile, NEW m \in Mode
  PROVE  /\ Opened(file, fd, f, m) \in [Fd -> [lfile : Lfile \cup {None}, write : BOOLEAN]]
         /\ Opened(file, fd, f, m)[fd].lfile = f
         /\ \A e \in Fd : file[e].lfile # None =>
               e # fd /\ Opened(file, fd, f, m)[e] = file[e]
BY Shut DEF Opened, IsNextFd

(***************************************************************************)
(* What a slot may change while all others stay: the usual case.           *)
(***************************************************************************)
LEMMA UsersFinite == ASSUME NEW s PROVE IsFiniteSet(Users(s)) /\ Cardinality(Users(s)) \in Nat
BY FcacheAssumption, FS_Subset, FS_CardinalityType DEF Users
-----------------------------------------------------------------------------
LEMMA InitIInv == Init => IInv
<1> SUFFICES ASSUME Init PROVE IInv
  OBVIOUS
<1>1. InUse = {}
  BY DEF Init, InUse, NoSlot
<1>2. TypeOK
  <2>1. age \in [Slot -> 0 .. NFiles] /\ spoiled \in BOOLEAN /\ locked \subseteq Lfile
    <3>1. NFiles \in 0 .. NFiles
      BY FcacheAssumption
    <3> QED BY <3>1 DEF Init
  <2>2. slot \in [Slot -> [nref : Nat, lfile : Lfile \cup {None}, fd : Fd \cup {0}]]
    BY DEF Init, NoSlot
  <2>3. fio \in [Fd -> [lfile : Lfile \cup {None}, write : BOOLEAN]]
    BY Shut DEF Init
  <2>4. held \in [User -> [by : {"none", "getfd", "popen"},
                           lfile : Lfile \cup {None}, fd : Fd \cup {0}]]
    BY DEF Init, Nothing
  <2> QED BY <2>1, <2>2, <2>3, <2>4 DEF TypeOK
<1>3. \A u \in User : held[u] = Nothing /\ held[u].by = "none"
  BY DEF Init, Nothing
<1>4. Distinct /\ LockedOut
  BY <1>1 DEF Init, Distinct, LockedOut
<1>5. SlotsOpen /\ Counts
  BY <1>1 DEF SlotsOpen, Counts
<1>6. GetfdOK /\ PopenOK /\ NoneOK
  BY <1>3 DEF GetfdOK, PopenOK, NoneOK
<1> QED BY <1>2, <1>4, <1>5, <1>6 DEF IInv, Sound
-----------------------------------------------------------------------------
(***************************************************************************)
(* FM_GETFD.                                                               *)
(***************************************************************************)
LEMMA TouchedType == ASSUME TypeOK, NEW s \in Slot PROVE Touched(s) \in [Slot -> 0 .. NFiles]
BY FcacheAssumption DEF TypeOK, Touched

LEMMA HoldType ==
  ASSUME TypeOK, NEW u \in User, NEW b \in {"getfd", "popen"}, NEW f \in Lfile,
         NEW fd \in Fd \cup {0}, Hold(u, b, f, fd)
  PROVE  /\ held' \in [User -> [by : {"none", "getfd", "popen"},
                                lfile : Lfile \cup {None}, fd : Fd \cup {0}]]
         /\ held'[u].by = b /\ held'[u].lfile = f /\ held'[u].fd = fd
         /\ \A v \in User \ {u} : held'[v] = held[v]
BY DEF TypeOK, Hold

LEMMA GetCachedKeeps ==
  ASSUME IInv, NEW u \in User, NEW f \in Lfile, NEW m \in Mode, GetCached(u, f, m)
  PROVE  IInv'
<1>1. PICK s \in Slot : /\ Has(s, f)
                        /\ slot' = [slot EXCEPT ![s].nref = @ + 1]
                        /\ age' = Touched(s)
                        /\ Hold(u, "getfd", f, slot[s].fd)
  BY DEF GetCached
<1>2. held[u] = Nothing /\ UNCHANGED <<locked, fio, spoiled>>
  BY DEF GetCached
<1>3. TypeOK /\ s \in InUse /\ slot[s].lfile = f /\ slot[s].fd \in Fd \cup {0}
  BY <1>1 DEF IInv, TypeOK, Has, InUse
<1>4. /\ slot' \in [Slot -> [nref : Nat, lfile : Lfile \cup {None}, fd : Fd \cup {0}]]
      /\ slot'[s].nref = slot[s].nref + 1
      /\ \A t \in Slot : slot'[t].lfile = slot[t].lfile /\ slot'[t].fd = slot[t].fd
      /\ \A t \in Slot \ {s} : slot'[t] = slot[t]
  BY <1>1 DEF IInv, TypeOK
<1>5. InUse' = InUse
  <2>1. slot[s].nref \in Nat /\ slot[s].nref # 0 /\ slot'[s].nref # 0
    BY <1>3, <1>4 DEF InUse, TypeOK
  <2>2. \A t \in Slot : slot'[t].nref # 0 <=> slot[t].nref # 0
    BY <2>1, <1>4
  <2> QED BY <2>2 DEF InUse
<1>6. /\ held' \in [User -> [by : {"none", "getfd", "popen"},
                             lfile : Lfile \cup {None}, fd : Fd \cup {0}]]
      /\ held'[u].by = "getfd" /\ held'[u].lfile = f /\ held'[u].fd = slot[s].fd
      /\ \A v \in User \ {u} : held'[v] = held[v]
  BY <1>1, <1>3, HoldType
<1>7. TypeOK'
  BY <1>1, <1>2, <1>3, <1>4, <1>6, TouchedType DEF TypeOK
<1>8. Distinct' /\ LockedOut'
  BY <1>2, <1>4, <1>5 DEF IInv, Distinct, LockedOut, Cached, Has, InUse
<1>9. ASSUME ~spoiled' PROVE Sound'
  <2>1. Sound
    BY <1>2, <1>9 DEF IInv
  <2>2. SlotsOpen' /\ NoneOK'
    BY <2>1, <1>2, <1>4, <1>5, <1>6 DEF Sound, SlotsOpen, NoneOK, InUse
  <2>3. GetfdOK'
    BY <2>1, <1>3, <1>4, <1>5, <1>6 DEF Sound, GetfdOK, InUse
  <2>4. PopenOK'
    BY <2>1, <1>2, <1>4, <1>5, <1>6 DEF Sound, PopenOK, InUse
  <2>5. Counts'
    <3>1. u \notin Users(s)
      BY <1>2 DEF Users, Nothing
    <3>2. Users(s)' = Users(s) \cup {u}
      BY <1>3, <1>4, <1>6 DEF Users
    <3>3. Cardinality(Users(s)') = Cardinality(Users(s)) + 1
      BY <3>1, <3>2, UsersFinite, FS_AddElement
    <3>4. \A t \in InUse \ {s} : Users(t)' = Users(t)
      BY <1>2, <1>3, <1>4, <1>6 DEF IInv, Distinct, Users, InUse, Nothing
    <3>5. slot[s].nref \in Nat /\ Cardinality(Users(s)) \in Nat
      BY UsersFinite DEF IInv, TypeOK
    <3>6. /\ slot'[s].nref >= 1 + Cardinality(Users(s)')
          /\ "client" \notin Faults => slot'[s].nref = 1 + Cardinality(Users(s)')
      BY <2>1, <1>3, <1>4, <3>3, <3>5 DEF Sound, Counts
    <3>7. ASSUME NEW t \in InUse \ {s}
          PROVE  /\ slot'[t].nref >= 1 + Cardinality(Users(t)')
                 /\ "client" \notin Faults => slot'[t].nref = 1 + Cardinality(Users(t)')
      BY <2>1, <1>4, <3>4 DEF Sound, Counts, InUse
    <3> QED BY <1>5, <3>6, <3>7 DEF Counts
  <2> QED BY <2>2, <2>3, <2>4, <2>5 DEF Sound
<1> QED BY <1>7, <1>8, <1>9 DEF IInv

(***************************************************************************)
(* The slot that gives up its file: in a sound cache it has no users, and  *)
(* the others keep their descriptors.                                      *)
(***************************************************************************)
LEMMA GivesIdle ==
  ASSUME IInv, NEW s \in Slot, NEW f \in Lfile, NEW m \in Mode, Gives(s, f, m)
  PROVE  /\ slot[s].nref \in {0, 1}
         /\ \A t \in InUse \ {s} : slot[t].lfile # f
<1>1. slot[s].nref \in Nat /\ Idle(s)
  BY DEF IInv, TypeOK, Gives, Oldest, Precedes
<1>2. ASSUME NEW t \in InUse \ {s} PROVE slot[t].lfile # f
  <2>1. CASE Cached(f)
    BY <2>1, <1>2 DEF IInv, Gives, Has, Distinct, InUse
  <2>2. CASE ~Cached(f)
    BY <2>2, <1>2 DEF Cached, Has, InUse
  <2> QED BY <2>1, <2>2
<1> QED BY <1>1, <1>2 DEF Idle

LEMMA GivenType ==
  ASSUME IInv, NEW s \in Slot
  PROVE  /\ Given(s) \in [Fd -> [lfile : Lfile \cup {None}, write : BOOLEAN]]
         /\ \A fd \in Fd : fd # slot[s].fd \/ slot[s].nref # 1 => Given(s)[fd] = fio[fd]
<1>1. fio \in [Fd -> [lfile : Lfile \cup {None}, write : BOOLEAN]]
  BY DEF IInv, TypeOK
<1> QED BY <1>1, BecomeType, Shut DEF Given, Closed

LEMMA NoUsers ==
  ASSUME IInv, Sound, NEW s \in Slot, slot[s].nref \in {0, 1}
  PROVE  \A v \in User : held[v].by = "getfd" => v \notin Users(s) \/ s \notin InUse
<1>1. CASE s \in InUse
  <2>1. slot[s].nref = 1 /\ 1 >= 1 + Cardinality(Users(s))
    BY <1>1 DEF Sound, Counts, InUse
  <2>2. Cardinality(Users(s)) = 0
    BY <2>1, UsersFinite
  <2> QED BY <2>2, UsersFinite, FS_EmptySet
<1> QED BY <1>1

LEMMA GetOpenedKeeps ==
  ASSUME IInv, NEW u \in User, NEW f \in Lfile, NEW m \in Mode, GetOpened(u, f, m)
  PROVE  IInv'
<1>1. PICK s \in Slot, fd \in Fd : /\ Gives(s, f, m) /\ IsNextFd(Given(s), fd)
                                   /\ fio' = Opened(Given(s), fd, f, m)
                                   /\ slot' = [slot EXCEPT ![s] = [nref |-> 2, lfile |-> f, fd |-> fd]]
                                   /\ age' = Touched(s)
                                   /\ Hold(u, "getfd", f, fd)
  BY DEF GetOpened
<1>2. held[u] = Nothing /\ f \notin locked /\ UNCHANGED <<locked, spoiled>> /\ TypeOK
  BY DEF GetOpened, IInv
<1>3. slot[s].nref \in {0, 1} /\ \A t \in InUse \ {s} : slot[t].lfile # f
  BY <1>1, GivesIdle
<1>4. /\ slot' \in [Slot -> [nref : Nat, lfile : Lfile \cup {None}, fd : Fd \cup {0}]]
      /\ slot'[s].nref = 2 /\ slot'[s].lfile = f /\ slot'[s].fd = fd
      /\ \A t \in Slot \ {s} : slot'[t] = slot[t]
  BY <1>1 DEF IInv, TypeOK
<1>5. InUse' = InUse \cup {s} /\ InUse \subseteq Slot
  BY <1>4 DEF InUse
<1>6. /\ held' \in [User -> [by : {"none", "getfd", "popen"},
                             lfile : Lfile \cup {None}, fd : Fd \cup {0}]]
      /\ held'[u].by = "getfd" /\ held'[u].lfile = f /\ held'[u].fd = fd
      /\ \A v \in User \ {u} : held'[v] = held[v]
  BY <1>1, <1>2, HoldType
<1>7. /\ fio' \in [Fd -> [lfile : Lfile \cup {None}, write : BOOLEAN]]
      /\ fio'[fd].lfile = f
      /\ \A e \in Fd : (e # slot[s].fd \/ slot[s].nref # 1) /\ fio[e].lfile # None =>
            e # fd /\ fio'[e] = fio[e]
  <2>1. /\ Given(s) \in [Fd -> [lfile : Lfile \cup {None}, write : BOOLEAN]]
        /\ \A e \in Fd : e # slot[s].fd \/ slot[s].nref # 1 => Given(s)[e] = fio[e]
    BY GivenType
  <2>2. /\ fio' \in [Fd -> [lfile : Lfile \cup {None}, write : BOOLEAN]]
        /\ fio'[fd].lfile = f
        /\ \A e \in Fd : Given(s)[e].lfile # None => e # fd /\ fio'[e] = Given(s)[e]
    BY <2>1, <1>1, OpenedKeeps
  <2> QED BY <2>1, <2>2
<1>8. TypeOK'
  BY <1>1, <1>2, <1>4, <1>6, <1>7, TouchedType DEF TypeOK
<1>9. Distinct' /\ LockedOut'
  <2>1. Distinct'
    BY <1>3, <1>4, <1>5 DEF IInv, Distinct
  <2>2. ASSUME NEW g \in locked, NEW t \in Slot PROVE ~Has(t, g)'
    <3>1. CASE t = s
      BY <3>1, <2>2, <1>2, <1>4 DEF Has
    <3>2. CASE t # s
      BY <3>2, <2>2, <1>4 DEF IInv, LockedOut, Cached, Has
    <3> QED BY <3>1, <3>2
  <2> QED BY <2>1, <2>2, <1>2 DEF LockedOut, Cached
<1>10. ASSUME ~spoiled' PROVE Sound'
  <2>1. Sound
    BY <1>2, <1>10 DEF IInv
  <2>2. \A v \in User : held[v].by = "getfd" => v \notin Users(s) \/ s \notin InUse
    BY <2>1, <1>3, NoUsers
  <2>3. ASSUME NEW t \in InUse \ {s}
        PROVE  /\ slot[t].fd \in Fd /\ slot[t].fd # fd
               /\ fio'[slot[t].fd] = fio[slot[t].fd] /\ fio[slot[t].fd].lfile = slot[t].lfile
    <3>1. /\ slot[t].fd \in Fd /\ fio[slot[t].fd].lfile = slot[t].lfile
          /\ slot[t].lfile \in Lfile
      BY <2>1, <2>3 DEF Sound, SlotsOpen, IInv, Distinct
    <3>2. slot[s].nref = 1 => slot[t].fd # slot[s].fd
      <4>1. SUFFICES ASSUME slot[s].nref = 1 PROVE slot[t].fd # slot[s].fd
        OBVIOUS
      <4>2. s \in InUse
        BY <4>1 DEF InUse
      <4> QED BY <4>2, <2>1, <2>3, <3>1 DEF Sound, SlotsOpen, IInv, Distinct
    <3> QED BY <3>1, <3>2, <1>7, FcacheAssumption
  <2>4. SlotsOpen'
    BY <2>3, <1>4, <1>5, <1>7 DEF SlotsOpen
  <2>5. ASSUME NEW v \in User \ {u}, held[v].by = "getfd"
        PROVE  \E t \in InUse \ {s} : slot[t].lfile = held[v].lfile /\ slot[t].fd = held[v].fd
    BY <2>1, <2>2, <2>5 DEF Sound, GetfdOK, Users
  <2>6. GetfdOK'
    <3>1. ASSUME NEW v \in User, held'[v].by = "getfd"
          PROVE  \E t \in InUse' : slot'[t].lfile = held'[v].lfile /\ slot'[t].fd = held'[v].fd
      <4>1. CASE v = u
        BY <4>1, <1>4, <1>5, <1>6
      <4>2. CASE v # u
        BY <4>2, <3>1, <2>5, <1>4, <1>5, <1>6
      <4> QED BY <4>1, <4>2
    <3> QED BY <3>1 DEF GetfdOK
  <2>7. PopenOK'
    <3>1. ASSUME NEW v \in User, held'[v].by = "popen"
          PROVE  /\ v # u /\ held'[v] = held[v] /\ held[v].by = "popen"
                 /\ held[v].fd \in Fd /\ held[v].lfile \in Lfile /\ held[v].fd # fd
                 /\ fio'[held[v].fd] = fio[held[v].fd]
      <4>1. v # u /\ held'[v] = held[v] /\ held[v].by = "popen"
        BY <3>1, <1>6
      <4>2. /\ held[v].fd \in Fd /\ held[v].lfile \in Lfile
            /\ fio[held[v].fd].lfile = held[v].lfile
            /\ \A t \in InUse : held[v].fd # slot[t].fd
        BY <4>1, <2>1 DEF Sound, PopenOK
      <4>3. held[v].fd # slot[s].fd \/ slot[s].nref # 1
        BY <4>2, <1>3 DEF InUse
      <4> QED BY <4>1, <4>2, <4>3, <1>7, FcacheAssumption
    <3>2. ASSUME NEW v \in User, held'[v].by = "popen"
          PROVE  \A t \in InUse' : held'[v].fd # slot'[t].fd
      BY <3>1, <3>2, <2>1, <1>4, <1>5 DEF Sound, PopenOK
    <3> QED BY <3>1, <3>2, <2>1, <1>6 DEF Sound, PopenOK
  <2>8. NoneOK'
    BY <2>1, <1>6 DEF Sound, NoneOK
  <2>9. Counts'
    <3>1. Users(s)' = {u}
      BY <2>5, <1>3, <1>4, <1>6 DEF Users
    <3>2. \A t \in InUse \ {s} : Users(t)' = Users(t)
      BY <1>2, <1>3, <1>4, <1>5, <1>6 DEF Users, Nothing
    <3>3. Cardinality({u}) = 1
      BY FS_Singleton
    <3>4. ASSUME NEW t \in InUse \ {s}
          PROVE  /\ slot'[t].nref >= 1 + Cardinality(Users(t)')
                 /\ "client" \notin Faults => slot'[t].nref = 1 + Cardinality(Users(t)')
      BY <2>1, <1>4, <1>5, <3>2 DEF Sound, Counts
    <3> QED BY <1>4, <1>5, <3>1, <3>3, <3>4 DEF Counts
  <2> QED BY <2>4, <2>6, <2>7, <2>8, <2>9 DEF Sound
<1> QED BY <1>8, <1>9, <1>10 DEF IInv

LEMMA GetFailsKeeps ==
  ASSUME IInv, NEW f \in Lfile, NEW m \in Mode, GetFails(f, m) PROVE IInv'
<1>1. PICK s \in Slot : fio' = Given(s)
  BY DEF GetFails
<1>2. spoiled' = TRUE /\ UNCHANGED <<slot, age, locked, held>>
  BY DEF GetFails
<1>3. TypeOK'
  BY <1>1, <1>2, GivenType DEF IInv, TypeOK
<1>4. Distinct' /\ LockedOut'
  BY <1>2 DEF IInv, Distinct, LockedOut, Cached, Has, InUse
<1> QED BY <1>2, <1>3, <1>4 DEF IInv
-----------------------------------------------------------------------------
(***************************************************************************)
(* One reference less.                                                     *)
(***************************************************************************)
LEMMA Released ==
  ASSUME IInv, NEW s \in InUse, NEW lost \in SUBSET {slot[s].fd}, Release(s, lost)
  PROVE  /\ slot' \in [Slot -> [nref : Nat, lfile : Lfile \cup {None}, fd : Fd \cup {0}]]
         /\ fio' \in [Fd -> [lfile : Lfile \cup {None}, write : BOOLEAN]]
         /\ InUse' = IF slot[s].nref > 1 THEN InUse ELSE InUse \ {s}
         /\ \A t \in Slot \ {s} : slot'[t] = slot[t]
         /\ slot[s].nref > 1 => /\ slot'[s].nref = slot[s].nref - 1
                                /\ slot'[s].lfile = slot[s].lfile
                                /\ slot'[s].fd = slot[s].fd
                                /\ fio' = fio
         /\ \A fd \in Fd : fd # slot[s].fd => fio'[fd] = fio[fd]
<1>1. TypeOK /\ s \in Slot /\ slot[s].nref \in Nat /\ slot[s].nref # 0
  BY DEF IInv, TypeOK, InUse
<1>2. CASE slot[s].nref > 1
  <2>1. slot' = [slot EXCEPT ![s].nref = @ - 1] /\ fio' = fio
    BY <1>2 DEF Release
  <2>2. /\ slot' \in [Slot -> [nref : Nat, lfile : Lfile \cup {None}, fd : Fd \cup {0}]]
        /\ \A t \in Slot \ {s} : slot'[t] = slot[t]
        /\ slot'[s].nref = slot[s].nref - 1 /\ slot'[s].nref # 0
        /\ slot'[s].lfile = slot[s].lfile /\ slot'[s].fd = slot[s].fd
    BY <2>1, <1>1, <1>2 DEF TypeOK
  <2>3. \A t \in Slot : slot'[t].nref # 0 <=> slot[t].nref # 0
    BY <1>1, <2>2
  <2>4. InUse' = InUse
    BY <2>3 DEF InUse
  <2> QED BY <1>1, <1>2, <2>1, <2>2, <2>4 DEF TypeOK
<1>3. CASE ~(slot[s].nref > 1)
  <2>1. slot' = [slot EXCEPT ![s] = NoSlot] /\ Close({slot[s].fd}, lost)
    BY <1>3 DEF Release
  <2>2. /\ slot' \in [Slot -> [nref : Nat, lfile : Lfile \cup {None}, fd : Fd \cup {0}]]
        /\ \A t \in Slot \ {s} : slot'[t] = slot[t]
        /\ slot'[s].nref = 0
    BY <2>1, <1>1 DEF TypeOK, NoSlot
  <2>3. InUse' = InUse \ {s}
    BY <1>1, <2>2 DEF InUse
  <2>4. /\ fio' \in [Fd -> [lfile : Lfile \cup {None}, write : BOOLEAN]]
        /\ \A fd \in Fd \ {slot[s].fd} : fio'[fd] = fio[fd]
    BY <1>1, <2>1, CloseKeeps
  <2> QED BY <1>3, <2>2, <2>3, <2>4
<1> QED BY <1>2, <1>3

LEMMA FewerSlots ==
  ASSUME Distinct, LockedOut, InUse' \subseteq InUse, locked' \subseteq locked,
         \A t \in InUse' : slot'[t].lfile = slot[t].lfile
  PROVE  Distinct' /\ LockedOut'
<1>1. Distinct'
  BY DEF Distinct
<1>2. ASSUME NEW f \in locked', NEW t \in Slot PROVE ~Has(t, f)'
  BY <1>2 DEF LockedOut, Cached, Has, InUse
<1> QED BY <1>1, <1>2 DEF LockedOut, Cached

(***************************************************************************)
(* The cache's own reference goes: the slot had no users.                  *)
(***************************************************************************)
LEMMA ReleaseKeepsSound ==
  ASSUME IInv, Sound, NEW s \in InUse, slot[s].nref = 1,
         NEW lost \in SUBSET {slot[s].fd}, Release(s, lost), UNCHANGED held
  PROVE  Sound'
<1>1. /\ InUse' = InUse \ {s} /\ s \in Slot
      /\ \A t \in Slot \ {s} : slot'[t] = slot[t]
      /\ \A fd \in Fd : fd # slot[s].fd => fio'[fd] = fio[fd]
  BY Released DEF InUse
<1>2. \A v \in User : held[v].by = "getfd" => v \notin Users(s)
  BY <1>1, NoUsers
<1>3. \A t \in InUse' : t \in Slot /\ t \in InUse /\ t # s /\ slot'[t] = slot[t]
  BY <1>1 DEF InUse
<1>4. \A t \in InUse' : slot[t].fd # slot[s].fd
  BY <1>3 DEF Sound, SlotsOpen, IInv, Distinct
<1>5. SlotsOpen'
  BY <1>1, <1>3, <1>4 DEF Sound, SlotsOpen
<1>6. GetfdOK'
  <2>1. ASSUME NEW v \in User, held[v].by = "getfd"
        PROVE  \E t \in InUse' : slot'[t].lfile = held[v].lfile /\ slot'[t].fd = held[v].fd
    <3>1. PICK t \in InUse : slot[t].lfile = held[v].lfile /\ slot[t].fd = held[v].fd
      BY <2>1 DEF Sound, GetfdOK
    <3>2. t # s
      BY <3>1, <2>1, <1>2 DEF Users
    <3> QED BY <3>1, <3>2, <1>1, <1>3
  <2> QED BY <2>1 DEF GetfdOK
<1>7. PopenOK'
  <2>1. ASSUME NEW v \in User, held[v].by = "popen" PROVE fio'[held[v].fd] = fio[held[v].fd]
    BY <2>1, <1>1 DEF Sound, PopenOK
  <2> QED BY <2>1, <1>3 DEF Sound, PopenOK
<1>8. NoneOK'
  BY DEF Sound, NoneOK
<1>9. Counts'
  <2>1. \A t \in InUse' : Users(t)' = Users(t)
    BY <1>3 DEF Users
  <2> QED BY <2>1, <1>3 DEF Sound, Counts
<1> QED BY <1>5, <1>6, <1>7, <1>8, <1>9 DEF Sound

LEMMA ReleaseKeeps ==
  ASSUME IInv, NEW s \in InUse, slot[s].nref = 1, NEW lost \in SUBSET {slot[s].fd},
         Release(s, lost), UNCHANGED <<held, age, spoiled>>, locked' \subseteq locked
  PROVE  IInv'
<1>1. s \in Slot /\ ~(slot[s].nref > 1)
  BY DEF InUse
<1>2. TypeOK'
  BY Released DEF IInv, TypeOK
<1>3. InUse' \subseteq InUse /\ \A t \in InUse' : slot'[t] = slot[t]
  BY <1>1, Released DEF InUse
<1>4. Distinct' /\ LockedOut'
  BY <1>3, FewerSlots DEF IInv
<1>5. ~spoiled' => Sound'
  BY ReleaseKeepsSound DEF IInv
<1> QED BY <1>2, <1>4, <1>5 DEF IInv

LEMMA PurgeKeeps == ASSUME IInv, NEW f \in Lfile, Purge(f) PROVE IInv'
<1>1. PICK r \in Slot : Has(r, f) /\ slot[r].nref = 1
  BY DEF Purge
<1>2. PICK s \in Slot : Has(s, f) /\ \E lost \in SUBSET {slot[s].fd} : Release(s, lost)
  BY <1>1 DEF Purge, Ret, Cached
<1>3. s = r /\ s \in InUse
  BY <1>1, <1>2 DEF Has, InUse, IInv, Distinct
<1>4. UNCHANGED <<age, locked, held, spoiled>>
  BY DEF Purge
<1> QED BY <1>1, <1>2, <1>3, <1>4, ReleaseKeeps

(***************************************************************************)
(* FM_RETFD by a user.                                                     *)
(***************************************************************************)
LEMMA Forgotten ==
  ASSUME TypeOK, NEW u \in User, held' = [held EXCEPT ![u] = Nothing]
  PROVE  /\ held' \in [User -> [by : {"none", "getfd", "popen"},
                                lfile : Lfile \cup {None}, fd : Fd \cup {0}]]
         /\ held'[u] = Nothing /\ held'[u].by = "none"
         /\ \A v \in User \ {u} : held'[v] = held[v]
BY DEF TypeOK, Nothing

LEMMA RetFdKeeps == ASSUME IInv, NEW u \in User, RetFd(u) PROVE IInv'
<1>1. /\ held[u].by = "getfd" /\ held' = [held EXCEPT ![u] = Nothing]
      /\ Ret(held[u].lfile) /\ UNCHANGED <<age, locked, spoiled>>
  BY DEF RetFd
<1> DEFINE f == held[u].lfile
<1>2. /\ held' \in [User -> [by : {"none", "getfd", "popen"},
                             lfile : Lfile \cup {None}, fd : Fd \cup {0}]]
      /\ held'[u] = Nothing /\ held'[u].by = "none"
      /\ \A v \in User \ {u} : held'[v] = held[v]
  BY <1>1, Forgotten DEF IInv
<1>3. CASE ~Cached(f)
  <2>1. UNCHANGED <<slot, fio>>
    BY <1>1, <1>3 DEF Ret
  <2>2. spoiled
    BY <1>1, <1>3 DEF IInv, Sound, GetfdOK, Cached, Has, InUse
  <2>3. TypeOK' /\ Distinct' /\ LockedOut'
    BY <1>1, <1>2, <2>1 DEF IInv, TypeOK, Distinct, LockedOut, Cached, Has, InUse
  <2> QED BY <1>1, <2>2, <2>3 DEF IInv
<1>4. CASE Cached(f)
  <2>1. PICK s \in Slot : Has(s, f) /\ \E lost \in SUBSET {slot[s].fd} : Release(s, lost)
    BY <1>1, <1>4 DEF Ret
  <2>2. s \in InUse /\ slot[s].lfile = f
    BY <2>1 DEF Has, InUse
  <2>3. /\ slot' \in [Slot -> [nref : Nat, lfile : Lfile \cup {None}, fd : Fd \cup {0}]]
        /\ fio' \in [Fd -> [lfile : Lfile \cup {None}, write : BOOLEAN]]
        /\ InUse' = IF slot[s].nref > 1 THEN InUse ELSE InUse \ {s}
        /\ \A t \in Slot \ {s} : slot'[t] = slot[t]
        /\ slot[s].nref > 1 => /\ slot'[s].nref = slot[s].nref - 1
                               /\ slot'[s].lfile = slot[s].lfile
                               /\ slot'[s].fd = slot[s].fd
                               /\ fio' = fio
    BY <2>1, <2>2, Released
  <2>4. TypeOK'
    BY <1>1, <1>2, <2>3 DEF IInv, TypeOK
  <2>5. InUse' \subseteq InUse /\ \A t \in InUse' : slot'[t].lfile = slot[t].lfile
    BY <2>3 DEF InUse
  <2>6. Distinct' /\ LockedOut'
    BY <1>1, <2>5, FewerSlots DEF IInv
  <2>7. ASSUME ~spoiled' PROVE Sound'
    <3>1. Sound
      BY <1>1, <2>7 DEF IInv
    <3>2. u \in Users(s)
      BY <1>1, <2>2 DEF Users
    <3>3. /\ Cardinality(Users(s)) >= 1 /\ Cardinality(Users(s)) \in Nat
          /\ Cardinality(Users(s) \ {u}) = Cardinality(Users(s)) - 1
      <4>1. IsFiniteSet(Users(s)) /\ Cardinality(Users(s)) \in Nat
        BY UsersFinite
      <4>2. Cardinality(Users(s)) # 0
        BY <3>2, <4>1, FS_EmptySet
      <4>3. Cardinality(Users(s) \ {u}) = Cardinality(Users(s)) - 1
        BY <3>2, <4>1, FS_RemoveElement
      <4> QED BY <4>1, <4>2, <4>3
    <3>4. slot[s].nref > 1 /\ slot[s].nref \in Nat
      BY <3>1, <3>3, <2>2 DEF Sound, Counts, IInv, TypeOK, InUse
    <3>5. /\ InUse' = InUse /\ fio' = fio /\ slot'[s].nref = slot[s].nref - 1
          /\ \A t \in InUse : slot'[t].lfile = slot[t].lfile /\ slot'[t].fd = slot[t].fd
          /\ \A t \in InUse \ {s} : slot'[t] = slot[t]
      BY <2>3, <3>4 DEF InUse
    <3>6. SlotsOpen' /\ GetfdOK' /\ PopenOK' /\ NoneOK'
      <4>1. SlotsOpen'
        BY <3>1, <3>5 DEF Sound, SlotsOpen
      <4>2. GetfdOK'
        BY <3>1, <3>5, <1>2 DEF Sound, GetfdOK
      <4>3. PopenOK'
        BY <3>1, <3>5, <1>2 DEF Sound, PopenOK
      <4>4. NoneOK'
        BY <3>1, <1>2 DEF Sound, NoneOK
      <4> QED BY <4>1, <4>2, <4>3, <4>4
    <3>7. Counts'
      <4>1. Users(s)' = Users(s) \ {u}
        BY <1>2, <3>5, <2>2 DEF Users
      <4>2. \A t \in InUse \ {s} : Users(t)' = Users(t)
        BY <1>1, <1>2, <2>2, <3>5 DEF Users, IInv, Distinct
      <4>3. /\ slot'[s].nref >= 1 + Cardinality(Users(s)')
            /\ "client" \notin Faults => slot'[s].nref = 1 + Cardinality(Users(s)')
        BY <3>1, <3>3, <3>4, <3>5, <4>1, <2>2 DEF Sound, Counts
      <4>4. ASSUME NEW t \in InUse \ {s}
            PROVE  /\ slot'[t].nref >= 1 + Cardinality(Users(t)')
                   /\ "client" \notin Faults => slot'[t].nref = 1 + Cardinality(Users(t)')
        BY <3>1, <3>5, <4>2 DEF Sound, Counts
      <4> QED BY <3>5, <4>3, <4>4 DEF Counts
    <3> QED BY <3>6, <3>7 DEF Sound
  <2> QED BY <2>4, <2>6, <2>7 DEF IInv
<1> QED BY <1>3, <1>4

LEMMA ForgetsKeeps == ASSUME IInv, NEW u \in User, Forgets(u) PROVE IInv'
<1>1. /\ held[u].by = "getfd" /\ held' = [held EXCEPT ![u] = Nothing] /\ "client" \in Faults
      /\ UNCHANGED <<slot, age, locked, fio, spoiled>>
  BY DEF Forgets
<1>2. /\ held' \in [User -> [by : {"none", "getfd", "popen"},
                             lfile : Lfile \cup {None}, fd : Fd \cup {0}]]
      /\ held'[u] = Nothing /\ held'[u].by = "none"
      /\ \A v \in User \ {u} : held'[v] = held[v]
  BY <1>1, Forgotten DEF IInv
<1>3. InUse' = InUse
  BY <1>1 DEF InUse
<1>4. TypeOK' /\ Distinct' /\ LockedOut'
  BY <1>1, <1>2, <1>3 DEF IInv, TypeOK, Distinct, LockedOut, Cached, Has
<1>5. ASSUME ~spoiled' PROVE Sound'
  <2>1. Sound
    BY <1>1, <1>5 DEF IInv
  <2>2. SlotsOpen' /\ NoneOK'
    BY <2>1, <1>1, <1>2, <1>3 DEF Sound, SlotsOpen, NoneOK
  <2>3. GetfdOK' /\ PopenOK'
    BY <2>1, <1>1, <1>2, <1>3 DEF Sound, GetfdOK, PopenOK
  <2>4. Counts'
    <3>1. ASSUME NEW s \in InUse PROVE slot[s].nref >= 1 + Cardinality(Users(s)')
      <4>1. Users(s)' \subseteq Users(s)
        BY <1>1, <1>2 DEF Users, Nothing
      <4>2. Cardinality(Users(s)') =< Cardinality(Users(s)) /\ Cardinality(Users(s)') \in Nat
        BY <4>1, UsersFinite, FS_Subset, FS_CardinalityType
      <4> QED BY <2>1, <3>1, <4>2, UsersFinite DEF Sound, Counts, IInv, TypeOK, InUse
    <3> QED BY <3>1, <1>1, <1>3 DEF Counts
  <2> QED BY <2>2, <2>3, <2>4 DEF Sound
<1> QED BY <1>4, <1>5 DEF IInv
-----------------------------------------------------------------------------
(***************************************************************************)
(* FM_LOCKOUT, FM_UNLOCK.                                                  *)
(***************************************************************************)
LEMMA LockOutKeeps ==
  ASSUME IInv, NEW f \in Lfile, NEW lost \in SUBSET Fd, LockOut(f, lost),
         UNCHANGED <<age, held, spoiled>>, locked' \subseteq locked
  PROVE  IInv'
<1>1. CASE Cached(f)
  <2>1. PICK s \in Slot : Has(s, f) /\ slot[s].nref = 1 /\ lost \subseteq {slot[s].fd} /\ Release(s, lost)
    BY <1>1 DEF LockOut
  <2> QED BY <2>1, ReleaseKeeps DEF Has, InUse
<1>2. CASE ~Cached(f)
  <2>1. UNCHANGED <<slot, fio>> /\ InUse' = InUse
    BY <1>2 DEF LockOut, InUse
  <2>2. TypeOK' /\ Distinct' /\ LockedOut'
    BY <2>1 DEF IInv, TypeOK, Distinct, LockedOut, Cached, Has
  <2>3. Sound => Sound'
    BY <2>1 DEF Sound, SlotsOpen, GetfdOK, PopenOK, NoneOK, Counts, Users
  <2> QED BY <2>2, <2>3 DEF IInv
<1> QED BY <1>1, <1>2

LEMMA LockOutEmpties ==
  ASSUME IInv, NEW f \in Lfile, NEW lost, LockOut(f, lost) PROVE \A s \in Slot : ~Has(s, f)'
<1>1. CASE Cached(f)
  <2>1. PICK s \in Slot : Has(s, f) /\ slot[s].nref = 1 /\ lost \subseteq {slot[s].fd} /\ Release(s, lost)
    BY <1>1 DEF LockOut
  <2>2. s \in InUse
    BY <2>1 DEF Has, InUse
  <2>3. InUse' = InUse \ {s} /\ \A t \in Slot \ {s} : slot'[t] = slot[t]
    BY <2>1, <2>2, Released
  <2>4. ASSUME NEW t \in Slot, Has(t, f)' PROVE FALSE
    <3>1. t \in InUse' /\ slot'[t].lfile = f
      BY <2>4 DEF Has, InUse
    <3> QED BY <3>1, <2>1, <2>2, <2>3 DEF IInv, Distinct, Has
  <2> QED BY <2>4
<1>2. CASE ~Cached(f)
  BY <1>2 DEF LockOut, Cached, Has
<1> QED BY <1>1, <1>2

LEMMA LockKeeps == ASSUME IInv, NEW f \in Lfile, Lock(f) PROVE IInv'
<1>1. PICK lost \in SUBSET Fd :
         /\ LockOut(f, lost)
         /\ locked' = IF lost = {} THEN locked \cup {f} ELSE locked
  BY DEF Lock
<1>2. UNCHANGED <<age, held, spoiled>>
  BY DEF Lock
<1>3. \A s \in Slot : ~Has(s, f)'
  BY <1>1, LockOutEmpties
<1>4. CASE Cached(f)
  <2>1. PICK s \in Slot : Has(s, f) /\ slot[s].nref = 1 /\ lost \subseteq {slot[s].fd} /\ Release(s, lost)
    BY <1>1, <1>4 DEF LockOut
  <2>2. s \in InUse /\ ~(slot[s].nref > 1)
    BY <2>1 DEF Has, InUse
  <2>3. /\ slot' \in [Slot -> [nref : Nat, lfile : Lfile \cup {None}, fd : Fd \cup {0}]]
        /\ fio' \in [Fd -> [lfile : Lfile \cup {None}, write : BOOLEAN]]
        /\ InUse' = InUse \ {s} /\ \A t \in Slot \ {s} : slot'[t] = slot[t]
    BY <2>1, <2>2, Released
  <2>4. locked' \subseteq Lfile
    BY <1>1 DEF IInv, TypeOK
  <2>5. TypeOK'
    BY <1>2, <2>3, <2>4 DEF IInv, TypeOK
  <2>6. Distinct'
    BY <2>3 DEF IInv, Distinct, InUse
  <2>7. ~spoiled' => Sound'
    BY <1>2, <2>1, <2>2, ReleaseKeepsSound DEF IInv
  <2>8. LockedOut'
    <3>1. ASSUME NEW g \in locked', NEW t \in Slot PROVE ~Has(t, g)'
      BY <1>1, <1>3, <2>3, <3>1 DEF IInv, LockedOut, Cached, Has, InUse
    <3> QED BY <3>1 DEF LockedOut, Cached
  <2> QED BY <2>5, <2>6, <2>7, <2>8 DEF IInv
<1>5. CASE ~Cached(f)
  <2>1. UNCHANGED <<slot, fio>> /\ InUse' = InUse
    BY <1>1, <1>5 DEF LockOut, InUse
  <2>2. TypeOK' /\ Distinct'
    BY <1>1, <1>2, <2>1 DEF IInv, TypeOK, Distinct
  <2>3. LockedOut'
    BY <1>1, <1>5, <2>1 DEF IInv, LockedOut, Cached, Has
  <2>4. Sound => Sound'
    BY <1>2, <2>1 DEF Sound, SlotsOpen, GetfdOK, PopenOK, NoneOK, Counts, Users
  <2> QED BY <1>2, <2>2, <2>3, <2>4 DEF IInv
<1> QED BY <1>4, <1>5

LEMMA UnlockKeeps == ASSUME IInv, NEW f \in Lfile, Unlock(f) PROVE IInv'
<1>1. locked' = locked \ {f} /\ UNCHANGED <<slot, age, fio, held, spoiled>>
  BY DEF Unlock
<1>2. TypeOK' /\ Distinct' /\ LockedOut'
  BY <1>1 DEF IInv, TypeOK, Distinct, LockedOut, Cached, Has, InUse
<1>3. Sound => Sound'
  BY <1>1 DEF Sound, SlotsOpen, GetfdOK, PopenOK, NoneOK, Counts, Users, InUse
<1> QED BY <1>1, <1>2, <1>3 DEF IInv

LEMMA PopenFailsKeeps == ASSUME IInv, NEW f \in Lfile, PopenFails(f) PROVE IInv'
BY LockOutKeeps DEF PopenFails
-----------------------------------------------------------------------------
(***************************************************************************)
(* QP_POPEN and QP_PCLOSE.                                                 *)
(***************************************************************************)
LEMMA PopenKeeps ==
  ASSUME IInv, NEW u \in User, NEW f \in Lfile, NEW m \in Mode, Popen(u, f, m) PROVE IInv'
<1>1. /\ held[u] = Nothing /\ ~Active(f) /\ locked' = locked \ {f}
      /\ slot' = [s \in Slot |-> IF Has(s, f) THEN NoSlot ELSE slot[s]]
      /\ UNCHANGED <<age, spoiled>> /\ TypeOK
  BY DEF Popen, IInv
<1>2. /\ slot' \in [Slot -> [nref : Nat, lfile : Lfile \cup {None}, fd : Fd \cup {0}]]
      /\ InUse' = {s \in InUse : slot[s].lfile # f}
      /\ \A t \in InUse' : t \in InUse /\ slot'[t] = slot[t]
  <2>1. slot' \in [Slot -> [nref : Nat, lfile : Lfile \cup {None}, fd : Fd \cup {0}]]
    BY <1>1 DEF TypeOK, NoSlot
  <2>2. \A s \in Slot : slot'[s] = IF Has(s, f) THEN NoSlot ELSE slot[s]
    BY <1>1
  <2>3. InUse' = {s \in InUse : slot[s].lfile # f}
    BY <2>2 DEF InUse, Has, NoSlot
  <2> QED BY <2>1, <2>2, <2>3 DEF InUse, Has
<1>3. Distinct' /\ LockedOut'
  BY <1>1, <1>2, FewerSlots DEF IInv
<1> DEFINE w == Without(f)
           gone == {slot[s].fd : s \in {t \in Slot : Has(t, f)}}
<1>4. /\ w \in [Fd -> [lfile : Lfile \cup {None}, write : BOOLEAN]]
      /\ \A fd \in Fd \ gone : w[fd] = fio[fd]
  <2>1. fio \in [Fd -> [lfile : Lfile \cup {None}, write : BOOLEAN]]
    BY <1>1 DEF TypeOK
  <2>2. w = Become(fio, gone, NotOpen)
    BY DEF Without, Closed
  <2> QED BY <2>1, <2>2, BecomeType, Shut
<1> HIDE DEF w
<1>5. ASSUME Sound, NEW t \in InUse' PROVE slot[t].fd \notin gone
  <2>1. SUFFICES ASSUME NEW s \in Slot, Has(s, f), slot[s].fd = slot[t].fd PROVE FALSE
    OBVIOUS
  <2>2. s \in InUse /\ s # t /\ t \in InUse
    BY <2>1, <1>2 DEF Has, InUse
  <2> QED BY <1>5, <2>1, <2>2 DEF Sound, SlotsOpen, IInv, Distinct
<1>6. ASSUME Sound, NEW v \in User, held[v].by = "popen" PROVE held[v].fd \notin gone
  BY <1>6 DEF Sound, PopenOK, Has, InUse
<1>7. ASSUME Sound, NEW v \in User, held[v].by = "getfd"
      PROVE  \E t \in InUse' : slot'[t].lfile = held[v].lfile /\ slot'[t].fd = held[v].fd
  <2>1. PICK t \in InUse : slot[t].lfile = held[v].lfile /\ slot[t].fd = held[v].fd
    BY <1>7 DEF Sound, GetfdOK
  <2>2. slot[t].lfile # f
    <3>1. SUFFICES ASSUME slot[t].lfile = f PROVE FALSE
      OBVIOUS
    <3>2. slot[t].nref \in {0, 1} /\ t \in Slot
      <4>1. t \in Slot /\ Has(t, f) /\ slot[t].nref \in Nat
        BY <2>1, <3>1, <1>1 DEF Has, InUse, TypeOK
      <4>2. ~(slot[t].nref > 1)
        BY <4>1, <1>1 DEF Active
      <4> QED BY <4>1, <4>2
    <3>3. v \notin Users(t)
      BY <1>7, <3>2, NoUsers
    <3> QED BY <1>7, <2>1, <3>3 DEF Users
  <2> QED BY <2>1, <2>2, <1>2
<1>8. ASSUME NEW fd \in Fd, IsNextFd(w, fd), fio' = Opened(w, fd, f, m), Hold(u, "popen", f, fd)
      PROVE  IInv'
  <2>1. /\ held' \in [User -> [by : {"none", "getfd", "popen"},
                               lfile : Lfile \cup {None}, fd : Fd \cup {0}]]
        /\ held'[u].by = "popen" /\ held'[u].lfile = f /\ held'[u].fd = fd
        /\ \A v \in User \ {u} : held'[v] = held[v]
    BY <1>1, <1>8, HoldType
  <2>2. /\ fio' \in [Fd -> [lfile : Lfile \cup {None}, write : BOOLEAN]]
        /\ fio'[fd].lfile = f
        /\ \A e \in Fd : w[e].lfile # None => e # fd /\ fio'[e] = w[e]
    BY <1>4, <1>8, OpenedKeeps
  <2>3. TypeOK'
    BY <1>1, <1>2, <2>1, <2>2 DEF TypeOK
  <2>4. ASSUME ~spoiled' PROVE Sound'
    <3>1. Sound
      BY <1>1, <2>4 DEF IInv
    <3>2. ASSUME NEW t \in InUse'
          PROVE  /\ slot[t].fd \in Fd /\ slot[t].fd # fd
                 /\ fio'[slot[t].fd].lfile = slot[t].lfile
      <4>1. /\ slot[t].fd \in Fd /\ fio[slot[t].fd].lfile = slot[t].lfile
            /\ slot[t].lfile # None
        BY <3>1, <3>2, <1>2, FcacheAssumption DEF Sound, SlotsOpen, IInv, Distinct
      <4>2. w[slot[t].fd] = fio[slot[t].fd]
        BY <3>1, <3>2, <4>1, <1>4, <1>5
      <4> QED BY <4>1, <4>2, <2>2
    <3>3. SlotsOpen'
      BY <1>2, <3>2 DEF SlotsOpen
    <3>4. GetfdOK'
      BY <3>1, <1>7, <2>1 DEF GetfdOK
    <3>5. ASSUME NEW v \in User \ {u}, held[v].by = "popen"
          PROVE  /\ held[v].fd \in Fd /\ held[v].lfile \in Lfile /\ held[v].fd # fd
                 /\ fio'[held[v].fd].lfile = held[v].lfile
                 /\ \A s \in InUse' : held[v].fd # slot'[s].fd
      <4>1. /\ held[v].fd \in Fd /\ held[v].lfile \in Lfile
            /\ fio[held[v].fd].lfile = held[v].lfile
            /\ \A s \in InUse : held[v].fd # slot[s].fd
        BY <3>1, <3>5 DEF Sound, PopenOK
      <4>2. w[held[v].fd] = fio[held[v].fd]
        BY <3>1, <3>5, <4>1, <1>4, <1>6
      <4>3. held[v].fd # fd /\ fio'[held[v].fd].lfile = held[v].lfile
        BY <4>1, <4>2, <2>2, FcacheAssumption
      <4>4. \A s \in InUse' : held[v].fd # slot'[s].fd
        BY <4>1, <1>2
      <4> QED BY <4>1, <4>3, <4>4
    <3>6. PopenOK'
      <4>1. ASSUME NEW v \in User, held'[v].by = "popen"
            PROVE  /\ held'[v].fd \in Fd /\ held'[v].lfile \in Lfile
                   /\ fio'[held'[v].fd].lfile = held'[v].lfile
                   /\ \A s \in InUse' : held'[v].fd # slot'[s].fd
        <5>1. CASE v = u
          BY <5>1, <1>2, <2>1, <2>2, <3>2
        <5>2. CASE v # u
          BY <5>2, <4>1, <2>1, <3>5
        <5> QED BY <5>1, <5>2
      <4>2. ASSUME NEW v \in User, NEW x \in User, v # x,
                   held'[v].by = "popen", held'[x].by = "popen"
            PROVE  held'[v].fd # held'[x].fd
        <5>1. CASE v = u
          BY <5>1, <4>2, <2>1, <3>5
        <5>2. CASE x = u
          BY <5>2, <4>2, <2>1, <3>5
        <5>3. CASE v # u /\ x # u
          BY <5>3, <4>2, <2>1, <3>1 DEF Sound, PopenOK
        <5> QED BY <5>1, <5>2, <5>3
      <4> QED BY <4>1, <4>2 DEF PopenOK
    <3>7. NoneOK'
      BY <3>1, <2>1 DEF Sound, NoneOK
    <3>8. Counts'
      <4>1. ASSUME NEW t \in InUse' PROVE Users(t)' = Users(t)
        <5>1. slot'[t].lfile = slot[t].lfile
          BY <1>2, <4>1
        <5>2. held[u].by # "getfd" /\ held'[u].by # "getfd"
          BY <1>1, <2>1 DEF Nothing
        <5>3. \A v \in User : v # u => held'[v] = held[v]
          BY <2>1
        <5> QED BY <5>1, <5>2, <5>3 DEF Users
      <4> QED BY <4>1, <1>2, <3>1 DEF Sound, Counts
    <3> QED BY <3>3, <3>4, <3>6, <3>7, <3>8 DEF Sound
  <2> QED BY <2>3, <1>3, <2>4 DEF IInv
<1>9. ASSUME fio' = w, UNCHANGED held PROVE IInv'
  <2>1. TypeOK'
    BY <1>1, <1>2, <1>4, <1>9 DEF TypeOK
  <2>2. ASSUME ~spoiled' PROVE Sound'
    <3>1. Sound
      BY <1>1, <2>2 DEF IInv
    <3>2. SlotsOpen'
      BY <3>1, <1>2, <1>4, <1>5, <1>9 DEF Sound, SlotsOpen
    <3>3. GetfdOK' /\ NoneOK'
      BY <3>1, <1>7, <1>9 DEF Sound, GetfdOK, NoneOK
    <3>4. PopenOK'
      <4>1. ASSUME NEW v \in User, held[v].by = "popen" PROVE fio'[held[v].fd] = fio[held[v].fd]
        BY <3>1, <4>1, <1>4, <1>6, <1>9 DEF Sound, PopenOK
      <4> QED BY <4>1, <3>1, <1>2, <1>9 DEF Sound, PopenOK
    <3>5. Counts'
      <4>1. \A t \in InUse' : Users(t)' = Users(t)
        BY <1>2, <1>9 DEF Users
      <4> QED BY <4>1, <1>2, <3>1 DEF Sound, Counts
    <3> QED BY <3>2, <3>3, <3>4, <3>5 DEF Sound
  <2> QED BY <2>1, <1>3, <2>2 DEF IInv
<1> QED BY <1>8, <1>9 DEF Popen, w

LEMMA PcloseKeeps == ASSUME IInv, NEW u \in User, Pclose(u) PROVE IInv'
<1>1. /\ held[u].by = "popen" /\ held' = [held EXCEPT ![u] = Nothing]
      /\ locked' \subseteq locked /\ UNCHANGED <<slot, age, spoiled>>
  BY DEF Pclose
<1>2. PICK lost \in SUBSET {held[u].fd} : Close({held[u].fd}, lost)
  BY DEF Pclose
<1>3. /\ fio' \in [Fd -> [lfile : Lfile \cup {None}, write : BOOLEAN]]
      /\ \A fd \in Fd \ {held[u].fd} : fio'[fd] = fio[fd]
  BY <1>2, CloseKeeps DEF IInv
<1>4. /\ held' \in [User -> [by : {"none", "getfd", "popen"},
                             lfile : Lfile \cup {None}, fd : Fd \cup {0}]]
      /\ held'[u] = Nothing /\ held'[u].by = "none"
      /\ \A v \in User \ {u} : held'[v] = held[v]
  BY <1>1, Forgotten DEF IInv
<1>5. InUse' = InUse
  BY <1>1 DEF InUse
<1>6. TypeOK' /\ Distinct' /\ LockedOut'
  <2>1. TypeOK'
    BY <1>1, <1>3, <1>4 DEF IInv, TypeOK
  <2> QED BY <2>1, <1>1, <1>5, FewerSlots DEF IInv
<1>7. ASSUME ~spoiled' PROVE Sound'
  <2>1. Sound
    BY <1>1, <1>7 DEF IInv
  <2>2. SlotsOpen'
    BY <2>1, <1>1, <1>3, <1>5 DEF Sound, SlotsOpen, PopenOK
  <2>3. GetfdOK' /\ NoneOK'
    BY <2>1, <1>1, <1>4, <1>5 DEF Sound, GetfdOK, NoneOK
  <2>4. PopenOK'
    <3>1. ASSUME NEW v \in User, held'[v].by = "popen"
          PROVE  v # u /\ held'[v] = held[v] /\ fio'[held[v].fd] = fio[held[v].fd]
      <4>1. v # u /\ held'[v] = held[v] /\ held[v].by = "popen"
        BY <3>1, <1>4
      <4> QED BY <4>1, <2>1, <1>1, <1>3 DEF Sound, PopenOK
    <3> QED BY <3>1, <2>1, <1>1, <1>5 DEF Sound, PopenOK
  <2>5. Counts'
    <3>1. \A s \in InUse : Users(s)' = Users(s)
      BY <1>1, <1>4 DEF Users
    <3> QED BY <3>1, <2>1, <1>1, <1>5 DEF Sound, Counts
  <2> QED BY <2>2, <2>3, <2>4, <2>5 DEF Sound
<1> QED BY <1>6, <1>7 DEF IInv

LEMMA FcFreeKeeps == ASSUME IInv, FcFree PROVE IInv'
<1>1. /\ \A u \in User : held[u] = Nothing
      /\ slot' = [s \in Slot |-> NoSlot] /\ age' = [s \in Slot |-> NFiles]
      /\ locked' = {} /\ UNCHANGED <<held, spoiled>>
  BY DEF FcFree
<1>2. fio' \in [Fd -> [lfile : Lfile \cup {None}, write : BOOLEAN]]
  BY CloseKeeps DEF FcFree, IInv
<1>3. InUse' = {}
  BY <1>1 DEF InUse, NoSlot
<1>4. TypeOK'
  <2>1. NFiles \in 0 .. NFiles
    BY FcacheAssumption
  <2>2. age' \in [Slot -> 0 .. NFiles]
    BY <1>1, <2>1
  <2>3. slot' \in [Slot -> [nref : Nat, lfile : Lfile \cup {None}, fd : Fd \cup {0}]]
    BY <1>1 DEF NoSlot
  <2> QED BY <1>1, <1>2, <2>2, <2>3 DEF IInv, TypeOK
<1>5. Distinct' /\ LockedOut'
  BY <1>1, <1>3 DEF Distinct, LockedOut
<1>6. Sound'
  <2>1. \A u \in User : held'[u] = Nothing /\ held'[u].by = "none"
    BY <1>1 DEF Nothing
  <2>2. SlotsOpen' /\ Counts'
    BY <1>3 DEF SlotsOpen, Counts
  <2>3. GetfdOK' /\ PopenOK' /\ NoneOK'
    BY <2>1 DEF GetfdOK, PopenOK, NoneOK
  <2> QED BY <2>2, <2>3 DEF Sound
<1> QED BY <1>4, <1>5, <1>6 DEF IInv
-----------------------------------------------------------------------------
LEMMA NextIInv == IInv /\ [Next]_vars => IInv'
<1> SUFFICES ASSUME IInv, [Next]_vars PROVE IInv'
  OBVIOUS
<1>1. CASE UNCHANGED vars
  <2>1. TypeOK' /\ Distinct' /\ LockedOut'
    BY <1>1 DEF IInv, vars, TypeOK, Distinct, LockedOut, Cached, Has, InUse
  <2>2. Sound => Sound'
    BY <1>1 DEF vars, Sound, SlotsOpen, GetfdOK, PopenOK, NoneOK, Counts, Users, InUse
  <2> QED BY <1>1, <2>1, <2>2 DEF IInv, vars
<1>2. ASSUME NEW f \in Lfile, NEW m \in Mode, GetFails(f, m) PROVE IInv'
  BY <1>2, GetFailsKeeps
<1>3. ASSUME NEW f \in Lfile, NEW m \in Mode, NEW u \in User,
             GetCached(u, f, m) \/ GetOpened(u, f, m) \/ Popen(u, f, m) PROVE IInv'
  BY <1>3, GetCachedKeeps, GetOpenedKeeps, PopenKeeps
<1>4. ASSUME NEW u \in User, RetFd(u) \/ Forgets(u) \/ Pclose(u) PROVE IInv'
  BY <1>4, RetFdKeeps, ForgetsKeeps, PcloseKeeps
<1>5. ASSUME NEW f \in Lfile, Purge(f) \/ Lock(f) \/ Unlock(f) \/ PopenFails(f) PROVE IInv'
  BY <1>5, PurgeKeeps, LockKeeps, UnlockKeeps, PopenFailsKeeps
<1>6. CASE FcFree
  BY <1>6, FcFreeKeeps
<1> QED BY <1>1, <1>2, <1>3, <1>4, <1>5, <1>6 DEF Next

THEOREM IInvariant == Spec => []IInv
<1> QED BY InitIInv, NextIInv, PTL DEF Spec

(***************************************************************************)
(* The cache keeps its types.                                              *)
(***************************************************************************)
THEOREM TypeCorrect == Spec => []TypeOK
<1>1. IInv => TypeOK
  BY DEF IInv
<1> QED BY <1>1, IInvariant, PTL

(***************************************************************************)
(* An lfile that is locked out is in no slot, whatever happened before.    *)
(***************************************************************************)
THEOREM LocksOut == Spec => []LockedOut
<1>1. IInv => LockedOut
  BY DEF IInv
<1> QED BY <1>1, IInvariant, PTL

(***************************************************************************)
(* Unless an FM_GETFD failed after it had closed a file, every descriptor  *)
(* a program holds is open on its lfile.                                   *)
(***************************************************************************)
THEOREM DescriptorsStayOpen == Spec => []HeldIsOpen
<1>1. IInv => HeldIsOpen
  <2> SUFFICES ASSUME IInv, ~spoiled, NEW u \in User, held[u] # Nothing
               PROVE  held[u].fd \in Fd /\ fio[held[u].fd].lfile = held[u].lfile
    BY DEF HeldIsOpen, OpenWhileHeld
  <2>1. Sound /\ held[u].by \in {"none", "getfd", "popen"}
    BY DEF IInv, TypeOK
  <2>2. CASE held[u].by = "none"
    BY <2>1, <2>2 DEF Sound, NoneOK
  <2>3. CASE held[u].by = "getfd"
    BY <2>1, <2>3 DEF Sound, GetfdOK, SlotsOpen
  <2>4. CASE held[u].by = "popen"
    BY <2>1, <2>4 DEF Sound, PopenOK
  <2> QED BY <2>1, <2>2, <2>3, <2>4
<1> QED BY <1>1, IInvariant, PTL

(***************************************************************************)
(* Nor do two owners share a descriptor.                                   *)
(***************************************************************************)
THEOREM SlotsAreOwners == Spec => []SlotsOwnFiles
<1>1. IInv => SlotsOwnFiles
  <2> SUFFICES ASSUME IInv, ~spoiled PROVE SlotsOwnFiles
    BY DEF SlotsOwnFiles
  <2>1. Sound /\ Distinct
    BY DEF IInv
  <2> QED BY <2>1 DEF Sound, SlotsOpen, PopenOK, Distinct, SlotsOwnFiles
<1> QED BY <1>1, IInvariant, PTL

(***************************************************************************)
(* And a slot counts its users.                                            *)
(***************************************************************************)
THEOREM UsersAreCounted == Spec => []CountsUsers
<1>1. IInv => CountsUsers
  <2> SUFFICES ASSUME IInv, ~spoiled PROVE CountsUsers
    BY DEF CountsUsers
  <2>1. Sound
    BY DEF IInv
  <2>2. ASSUME NEW u \in User, held[u].by = "getfd" PROVE \E s \in InUse : u \in Users(s)
    BY <2>1, <2>2 DEF Sound, GetfdOK, Users
  <2> QED BY <2>1, <2>2 DEF Sound, Counts, CountsUsers
<1> QED BY <1>1, IInvariant, PTL
-----------------------------------------------------------------------------
(***************************************************************************)
(* Eviction.  A set of numbers has a least member, so if the search passed *)
(* by an idle slot that is older than the one it takes, it would have      *)
(* stopped at the first such slot.                                         *)
(***************************************************************************)
LEMMA Least ==
  ASSUME NEW T \in SUBSET Nat, T # {}
  PROVE  \E x \in T : \A y \in T : x =< y
<1>1. PICK n \in T : TRUE
  OBVIOUS
<1> DEFINE N == 0 .. n
           R == StrictSubsetOrdering(N)
           Below(x) == T \cap (0 .. x)
           U == {Below(x) : x \in T \cap N}
<1>2. n \in Nat /\ n \in T \cap N /\ \A x \in T \cap N : x \in Nat /\ x =< n
  BY <1>1
<1>3. FiniteSubsetsOf(N) = SUBSET N
  <2>1. IsFiniteSet(N)
    BY <1>2, FS_Interval
  <2> HIDE DEF N
  <2> QED BY <2>1, FS_FiniteSubsetsOfFinite
<1>4. IsWellFoundedOn(R, SUBSET N)
  BY <1>3, FS_StrictSubsetOrderingWellFounded
<1>5. U \subseteq SUBSET N /\ U # {}
  <2>1. ASSUME NEW x \in T \cap N PROVE Below(x) \subseteq N
    BY <1>2
  <2> HIDE DEF Below, N
  <2> QED BY <1>2, <2>1
<1>6. PICK u \in U : \A v \in U : ~(<<v, u>> \in R)
  <2> HIDE DEF R, U
  <2> QED BY <1>4, <1>5, WFMin
<1>7. PICK x \in T \cap N : u = Below(x)
  OBVIOUS
<1>8. ASSUME NEW y \in T PROVE x =< y
  <2>1. SUFFICES ASSUME y < x PROVE FALSE
    BY <1>2
  <2>2. y \in T \cap N /\ x \in Below(x) /\ x \notin Below(y)
    BY <1>2, <2>1
  <2>3. Below(y) \subseteq Below(x) /\ Below(y) # Below(x) /\ Below(x) \subseteq N
    BY <1>2, <2>1, <2>2
  <2>4. <<Below(y), Below(x)>> \in R
    <3> HIDE DEF Below, N
    <3> QED BY <2>3 DEF StrictSubsetOrdering
  <2> QED BY <1>6, <1>7, <2>2, <2>4
<1> QED BY <1>8

LEMMA OldestIsOldest ==
  ASSUME TypeOK, NEW s \in Slot, Oldest(s), slot[s].nref = 1,
         NEW t \in Slot, slot[t].nref = 1
  PROVE  age[t] =< age[s]
<1>1. NFiles \in Nat /\ s \in Nat /\ t \in Nat /\ \A x \in Slot : age[x] \in Nat
  BY FcacheAssumption DEF TypeOK, Slot
<1>2. /\ \A x \in 1 .. s - 1 : Idle(x) => age[s] > age[x]
      /\ \A x \in s + 1 .. NFiles : ~Precedes(x)
      /\ Idle(t)
  BY DEF Oldest, Precedes, Free, Idle
<1> DEFINE T == {x \in s + 1 .. NFiles : Idle(x) /\ age[x] > age[s]}
<1>3. SUFFICES ASSUME age[t] > age[s] PROVE FALSE
  BY <1>1
<1>4. t \in T
  <2>1. t \notin 1 .. s - 1 /\ t # s
    BY <1>1, <1>2, <1>3
  <2> QED BY <1>1, <1>2, <1>3, <2>1 DEF Slot
<1>5. T \in SUBSET Nat
  BY <1>1
<1>6. PICK x \in T : \A y \in T : x =< y
  <2> HIDE DEF T
  <2> QED BY <1>4, <1>5, Least
<1>7. x \in s + 1 .. NFiles /\ x \in Slot /\ Idle(x) /\ age[x] > age[s] /\ x \in Nat
  BY <1>1, <1>6 DEF Slot
<1>8. ASSUME NEW y \in 1 .. x - 1, Idle(y) PROVE age[x] > age[y]
  <2>1. y \in Slot /\ y \in Nat
    BY <1>1, <1>7 DEF Slot
  <2>2. CASE y < s
    BY <1>1, <1>2, <1>7, <1>8, <2>1, <2>2
  <2>3. CASE y = s
    BY <1>7, <2>3
  <2>4. CASE y > s
    <3>1. y \in s + 1 .. NFiles /\ y \notin T
      BY <1>1, <1>6, <1>7, <2>1, <2>4
    <3> QED BY <1>1, <1>7, <1>8, <2>1, <3>1
  <2> QED BY <1>1, <2>1, <2>2, <2>3, <2>4
<1>9. Precedes(x)
  BY <1>7, <1>8 DEF Precedes
<1> QED BY <1>2, <1>7, <1>9

(***************************************************************************)
(* Every other step leaves an lfile where it is, or its slot free.         *)
(***************************************************************************)
Stays(s) == slot'[s].nref = 0 \/ slot'[s].lfile = slot[s].lfile

LEMMA ReleaseStays ==
  ASSUME IInv, NEW s \in InUse, NEW lost \in SUBSET {slot[s].fd}, Release(s, lost),
         NEW t \in Slot
  PROVE  Stays(t)
<1>1. CASE t # s
  BY <1>1, Released DEF Stays
<1>2. CASE t = s /\ slot[s].nref > 1
  BY <1>2, Released DEF Stays
<1>3. CASE t = s /\ ~(slot[s].nref > 1)
  BY <1>3, Released DEF Stays, InUse
<1> QED BY <1>1, <1>2, <1>3

LEMMA OthersStay ==
  ASSUME IInv, [Next]_vars, NEW t \in Slot,
         ~\E f \in Lfile, m \in Mode, u \in User : GetOpened(u, f, m)
  PROVE  Stays(t)
<1>1. CASE UNCHANGED slot
  BY <1>1 DEF Stays
<1>2. ASSUME NEW f \in Lfile, NEW m \in Mode, NEW u \in User, GetCached(u, f, m)
      PROVE  Stays(t)
  <2>1. PICK s \in Slot : slot' = [slot EXCEPT ![s].nref = @ + 1]
    BY <1>2 DEF GetCached
  <2> QED BY <2>1 DEF IInv, TypeOK, Stays
<1>3. ASSUME NEW f \in Lfile, NEW m \in Mode, NEW u \in User, Popen(u, f, m)
      PROVE  Stays(t)
  BY <1>3 DEF Popen, Stays, NoSlot
<1>4. ASSUME NEW f, Ret(f) PROVE Stays(t)
  <2>1. CASE Cached(f)
    <3>1. PICK s \in Slot : Has(s, f) /\ \E lost \in SUBSET {slot[s].fd} : Release(s, lost)
      BY <1>4, <2>1 DEF Ret
    <3> QED BY <3>1, ReleaseStays DEF Has, InUse
  <2>2. CASE ~Cached(f)
    BY <1>1, <1>4, <2>2 DEF Ret
  <2> QED BY <2>1, <2>2
<1>5. ASSUME NEW f, NEW lost, LockOut(f, lost) PROVE Stays(t)
  <2>1. CASE Cached(f)
    <3>1. PICK s \in Slot : Has(s, f) /\ lost \subseteq {slot[s].fd} /\ Release(s, lost)
      BY <1>5, <2>1 DEF LockOut
    <3> QED BY <3>1, ReleaseStays DEF Has, InUse
  <2>2. CASE ~Cached(f)
    BY <1>1, <1>5, <2>2 DEF LockOut
  <2> QED BY <2>1, <2>2
<1>6. CASE FcFree
  BY <1>6 DEF FcFree, Stays, NoSlot
<1>7. ASSUME NEW f \in Lfile, NEW m \in Mode, GetFails(f, m) PROVE Stays(t)
  BY <1>1, <1>7 DEF GetFails
<1>8. ASSUME NEW u \in User, RetFd(u) \/ Forgets(u) \/ Pclose(u) PROVE Stays(t)
  BY <1>1, <1>4, <1>8 DEF RetFd, Forgets, Pclose
<1>9. ASSUME NEW f \in Lfile, Purge(f) \/ Lock(f) \/ Unlock(f) \/ PopenFails(f)
      PROVE  Stays(t)
  BY <1>1, <1>4, <1>5, <1>9 DEF Purge, Lock, Unlock, PopenFails
<1>10. CASE UNCHANGED vars
  BY <1>1, <1>10 DEF vars
<1> QED BY <1>2, <1>3, <1>6, <1>7, <1>8, <1>9, <1>10 DEF Next

(***************************************************************************)
(* EvictsOldest: the file that FM_GETFD closes for another to come was     *)
(* used last of those nobody has, for any number of slots and whatever     *)
(* the counts of the others.                                               *)
(***************************************************************************)
THEOREM LeastRecentlyUsedGoes == Spec => EvictsOldest
<1>1. ASSUME IInv, [Next]_vars, NEW s \in Slot, NEW t \in Slot,
             Evicted(s), slot[t].nref = 1
      PROVE  age[t] =< age[s]
  <2>1. PICK f \in Lfile, m \in Mode, u \in User : GetOpened(u, f, m)
    BY <1>1, OthersStay DEF Evicted, Stays
  <2>2. PICK r \in Slot, fd \in Fd :
           /\ Gives(r, f, m)
           /\ slot' = [slot EXCEPT ![r] = [nref |-> 2, lfile |-> f, fd |-> fd]]
    BY <2>1 DEF GetOpened
  <2>3. s = r /\ slot'[s].lfile = f
    BY <1>1, <2>2 DEF Evicted, IInv, TypeOK
  <2>4. Oldest(s)
    BY <1>1, <2>2, <2>3 DEF Gives, Has, Evicted
  <2> QED BY <1>1, <2>4, OldestIsOldest DEF IInv, Evicted
<1>2. IInv /\ [Next]_vars =>
        [\A s, t \in Slot : Evicted(s) /\ slot[t].nref = 1 => age[t] =< age[s]]_vars
  BY <1>1
<1> QED BY <1>2, IInvariant, PTL DEF Spec, EvictsOldest
=============================================================================
