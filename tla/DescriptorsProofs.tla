------------------------- MODULE DescriptorsProofs -------------------------
(***************************************************************************)
(* Theorems about Descriptors, for every number of objects, open files and *)
(* descriptors.                                                            *)
(***************************************************************************)
EXTENDS Descriptors, TLAPS

(* What holds until a close() has failed: a number somebody holds still    *)
(* means the file that came with it, and nobody else holds it.             *)
Owners ==
  /\ \A o \in Obj : own[o] # None => fd_[o] \in Fd /\ table[fd_[o]] = own[o]
  /\ \A o \in Obj : own[o] = None => fd_[o] <= 0
  /\ \A h \in accepted \cup others : table[h[1]] = h[2]
  /\ \A o, p \in Obj : own[o] # None /\ own[o] = own[p] => o = p
  /\ \A o \in Obj, h \in accepted \cup others : own[o] # h[2]
  /\ accepted \cap others = {}

(* A file is open at most once in the table.                               *)
OnceInTable ==
  \A m, n \in Fd : table[m] # None /\ table[m] = table[n] => m = n

NoObject == \A o \in Obj : class[o] = "none" => fd_[o] = -1 /\ own[o] = None

-----------------------------------------------------------------------------
(* The result of ::close: the other descriptors are as before, and nothing *)
(* foreign is closed by an owner whose number is good.                     *)
LEMMA SysCloseFacts ==
  ASSUME TypeOK, NEW n \in Fd \cup {-1}, NEW f \in File \cup {None}, SysClose(n, f)
  PROVE  /\ table' \in [Fd -> File \cup {None}]
         /\ foreign' \in BOOLEAN
         /\ \A m \in Fd : m # n => table'[m] = table[m]
         /\ n \in Fd => table'[n] = None
         /\ OnceInTable => OnceInTable'
         /\ (n \in Fd => table[n] \in {f, None}) => foreign' = foreign
<1>1. /\ table' \in [Fd -> File \cup {None}]
      /\ \A m \in Fd : m # n => table'[m] = table[m]
  BY DEF TypeOK, SysClose
<1>2. n \in Fd => table'[n] = None
  BY DEF TypeOK, SysClose
<1>3. OnceInTable => OnceInTable'
  BY <1>1, <1>2 DEF OnceInTable
<1>4. foreign' \in BOOLEAN
  BY DEF TypeOK, SysClose
<1>5. (n \in Fd => table[n] \in {f, None}) => foreign' = foreign
  BY DEF TypeOK, SysClose
<1> QED  BY <1>1, <1>2, <1>3, <1>4, <1>5

(* The same for a new descriptor.                                          *)
LEMMA OpenFacts ==
  ASSUME TypeOK, NEW n \in Fd, NEW f \in File, Lowest(n), FreshFile(f),
         table' = [table EXCEPT ![n] = f]
  PROVE  /\ table' \in [Fd -> File \cup {None}]
         /\ table[n] = None /\ table'[n] = f
         /\ \A m \in Fd : m # n => table'[m] = table[m]
         /\ OnceInTable => OnceInTable'
         /\ \A o \in Obj : own[o] # f
         /\ \A h \in accepted \cup others : h[2] # f
         /\ f # None
  BY DescriptorsAssumption, SMT DEF TypeOK, Lowest, FreshFile, OnceInTable, Fd

(* A move leaves one of the two objects with what the other one had.       *)
LEMMA MoveFacts ==
  ASSUME TypeOK, NEW o \in Obj, NEW p \in Obj, o # p, class[p] # "none",
         MoveTo(o, p, class[p])
  PROVE  /\ class' \in [Obj -> Class \cup {"none"}]
         /\ fd_' \in [Obj -> Fd \cup {-1}]
         /\ own' \in [Obj -> File \cup {None}]
         /\ class'[o] = class[p] /\ class'[p] = class[p]
         /\ fd_'[o] = fd_[p] /\ own'[o] = own[p]
         /\ fd_'[p] \in {0, -1} /\ own'[p] = None
         /\ \A q \in Obj \ {o, p} : /\ class'[q] = class[q]
                                    /\ fd_'[q] = fd_[q] /\ own'[q] = own[q]
  BY DescriptorsAssumption, SMT DEF TypeOK, MoveTo, MovedFrom, Class, Fd

(* An object is constructed or destroyed.                                  *)
LEMMA BecomesFacts ==
  ASSUME TypeOK, NEW o \in Obj, NEW c \in Class \cup {"none"},
         NEW n \in Fd \cup {-1}, NEW f \in File \cup {None}, Becomes(o, c, n, f)
  PROVE  /\ class' \in [Obj -> Class \cup {"none"}]
         /\ fd_' \in [Obj -> Fd \cup {-1}]
         /\ own' \in [Obj -> File \cup {None}]
         /\ class'[o] = c /\ fd_'[o] = n /\ own'[o] = f
         /\ \A q \in Obj \ {o} : /\ class'[q] = class[q]
                                 /\ fd_'[q] = fd_[q] /\ own'[q] = own[q]
  BY SMT DEF TypeOK, Becomes

(* A storage location is left without an open file.                        *)
LEMMA EmptyFacts ==
  ASSUME TypeOK, NEW o \in Obj, NEW c \in Class \cup {"none"}, Becomes(o, c, -1, None)
  PROVE  /\ class' \in [Obj -> Class \cup {"none"}]
         /\ fd_' \in [Obj -> Fd \cup {-1}]
         /\ own' \in [Obj -> File \cup {None}]
         /\ class'[o] = c /\ fd_'[o] = -1 /\ own'[o] = None
         /\ \A q \in Obj \ {o} : /\ class'[q] = class[q]
                                 /\ fd_'[q] = fd_[q] /\ own'[q] = own[q]
<1>1. -1 \in Fd \cup {-1} /\ None \in File \cup {None}
  OBVIOUS
<1> QED  BY <1>1, BecomesFacts

-----------------------------------------------------------------------------
(* Every action keeps the types, a file open at most once, and an empty    *)
(* storage location without a descriptor.                                  *)
Basics == TypeOK /\ OnceInTable /\ NoObject

LEMMA BasicsStep ==
  ASSUME Basics, [Next]_vars
  PROVE  Basics'
<1>0. TypeOK /\ OnceInTable /\ NoObject
  BY DEF Basics
<1>1. ASSUME NEW o \in Obj, NEW c \in Class, Open(o, c)
      PROVE  Basics'
  <2>1. ASSUME NEW n \in Fd, NEW f \in File, Lowest(n), FreshFile(f),
               table' = [table EXCEPT ![n] = f], Becomes(o, c, n, f)
        PROVE  Basics'
    <3>1. table' \in [Fd -> File \cup {None}] /\ OnceInTable'
      BY <1>0, <2>1, OpenFacts
    <3>2. TypeOK' /\ NoObject'
      BY <1>0, <1>1, <2>1, <3>1, BecomesFacts DEF Open, TypeOK, NoObject, Class
    <3> QED  BY <3>1, <3>2 DEF Basics
  <2>2. ASSUME Becomes(o, c, -1, None), UNCHANGED table
        PROVE  Basics'
    BY <1>0, <1>1, <2>2, EmptyFacts
       DEF Open, TypeOK, NoObject, OnceInTable, Basics
  <2> QED  BY <1>1, <2>1, <2>2 DEF Open
<1>2. ASSUME NEW o \in Obj, NEW p \in Obj, MoveConstruct(o, p)
      PROVE  Basics'
  BY <1>0, <1>2, MoveFacts
     DEF MoveConstruct, TypeOK, NoObject, OnceInTable, Basics
<1>3. ASSUME NEW o \in Obj, NEW p \in Obj, MoveAssign(o, p)
      PROVE  Basics'
  <2>1. table' \in [Fd -> File \cup {None}] /\ OnceInTable' /\ foreign' \in BOOLEAN
    <3>1. CASE SysClose(fd_[o], own[o])
      <4>1. fd_[o] \in Fd \cup {-1} /\ own[o] \in File \cup {None}
        BY <1>0 DEF TypeOK
      <4> QED  BY <1>0, <3>1, <4>1, SysCloseFacts
    <3>2. CASE UNCHANGED <<table, foreign>>
      BY <1>0, <3>2 DEF TypeOK, OnceInTable
    <3> QED  BY <1>3, <3>1, <3>2 DEF MoveAssign
  <2> QED  BY <1>0, <1>3, <2>1, MoveFacts DEF MoveAssign, TypeOK, NoObject, Basics
<1>4. ASSUME NEW o \in Obj, Close(o)
      PROVE  Basics'
  <2>1. fd_[o] \in Fd \cup {-1} /\ own[o] \in File \cup {None}
    BY <1>0 DEF TypeOK
  <2>2. table' \in [Fd -> File \cup {None}] /\ OnceInTable' /\ foreign' \in BOOLEAN
    BY <1>0, <1>4, <2>1, SysCloseFacts DEF Close
  <2>3. CASE Becomes(o, "socket", -1, None) /\ UNCHANGED failed
    BY <1>0, <1>4, <2>2, <2>3, EmptyFacts
       DEF Close, TypeOK, NoObject, Class, Basics
  <2>4. CASE failed' = (failed \/ table[fd_[o]] # None) /\ UNCHANGED heldVars
    <3>1. failed' \in BOOLEAN
      BY <1>0, <2>4 DEF TypeOK
    <3> QED  BY <1>0, <1>4, <2>2, <2>4, <3>1
                DEF Close, heldVars, TypeOK, NoObject, Basics
  <2> QED  BY <1>4, <2>3, <2>4 DEF Close
<1>5. ASSUME NEW o \in Obj, Destroy(o)
      PROVE  Basics'
  <2>1. table' \in [Fd -> File \cup {None}] /\ OnceInTable' /\ foreign' \in BOOLEAN
    <3>1. CASE SysClose(fd_[o], own[o])
      <4>1. fd_[o] \in Fd \cup {-1} /\ own[o] \in File \cup {None}
        BY <1>0 DEF TypeOK
      <4> QED  BY <1>0, <3>1, <4>1, SysCloseFacts
    <3>2. CASE UNCHANGED <<table, foreign>>
      BY <1>0, <3>2 DEF TypeOK, OnceInTable
    <3> QED  BY <1>5, <3>1, <3>2 DEF Destroy
  <2> QED  BY <1>0, <1>5, <2>1, EmptyFacts DEF Destroy, TypeOK, NoObject, Basics
<1>6. ASSUME NEW o \in Obj, AcceptResumes(o)
      PROVE  Basics'
  <2>1. PICK h \in accepted :
          /\ accepted' = accepted \ {h}
          /\ IF h[1] > 0
               THEN class[o] = "none" /\ Becomes(o, "socket", h[1], h[2])
               ELSE UNCHANGED heldVars
    BY <1>6 DEF AcceptResumes
  <2>2. h[1] \in Fd /\ h[2] \in File
    BY <1>0 DEF TypeOK
  <2>3. CASE h[1] > 0
    BY <1>0, <1>6, <2>1, <2>2, <2>3, BecomesFacts
       DEF AcceptResumes, TypeOK, NoObject, Class, OnceInTable, Basics
  <2>4. CASE ~ (h[1] > 0)
    BY <1>0, <1>6, <2>1, <2>4
       DEF AcceptResumes, heldVars, TypeOK, NoObject, OnceInTable, Basics
  <2> QED  BY <2>3, <2>4
<1>7. CASE AcceptCompletes
  <2>1. PICK n \in Fd, f \in File : /\ Lowest(n) /\ FreshFile(f)
                                  /\ table' = [table EXCEPT ![n] = f]
                                  /\ accepted' = accepted \cup {<<n, f>>}
    BY <1>7 DEF AcceptCompletes
  <2>2. table' \in [Fd -> File \cup {None}] /\ OnceInTable'
    BY <1>0, <2>1, OpenFacts
  <2> QED  BY <1>0, <1>7, <2>1, <2>2
              DEF AcceptCompletes, heldVars, TypeOK, NoObject, Basics
<1>8. CASE OtherOpens
  <2>1. PICK n \in Fd, f \in File : /\ Lowest(n) /\ FreshFile(f)
                                  /\ table' = [table EXCEPT ![n] = f]
                                  /\ others' = others \cup {<<n, f>>}
    BY <1>8 DEF OtherOpens
  <2>2. table' \in [Fd -> File \cup {None}] /\ OnceInTable'
    BY <1>0, <2>1, OpenFacts
  <2> QED  BY <1>0, <1>8, <2>1, <2>2
              DEF OtherOpens, heldVars, TypeOK, NoObject, Basics
<1>9. CASE OtherCloses
  <2>1. PICK h \in others : SysClose(h[1], h[2]) /\ others' = others \ {h}
    BY <1>9 DEF OtherCloses
  <2>2. h[1] \in Fd \cup {-1} /\ h[2] \in File \cup {None}
    BY <1>0 DEF TypeOK
  <2>3. table' \in [Fd -> File \cup {None}] /\ OnceInTable' /\ foreign' \in BOOLEAN
    BY <1>0, <2>1, <2>2, SysCloseFacts
  <2> QED  BY <1>0, <1>9, <2>1, <2>3
              DEF OtherCloses, heldVars, TypeOK, NoObject, Basics
<1>10. CASE UNCHANGED vars
  BY <1>0, <1>10 DEF vars, heldVars, TypeOK, OnceInTable, NoObject, Basics
<1> QED
  BY <1>1, <1>2, <1>3, <1>4, <1>5, <1>6, <1>7, <1>8, <1>9, <1>10 DEF Next

-----------------------------------------------------------------------------
(* A holder that closes what it holds takes nothing from the others.       *)
LEMMA CloseOwned ==
  ASSUME TypeOK, Owners, NEW o \in Obj, fd_[o] # 0, SysClose(fd_[o], own[o])
  PROVE  /\ foreign' = foreign
         /\ \A q \in Obj \ {o} :
              own[q] # None => fd_[q] \in Fd /\ table'[fd_[q]] = own[q]
         /\ \A h \in accepted \cup others : table'[h[1]] = h[2]
<1>1. fd_[o] \in Fd \cup {-1} /\ own[o] \in File \cup {None}
  BY DEF TypeOK
<1>2. \A m \in Fd : m # fd_[o] => table'[m] = table[m]
  BY <1>1, SysCloseFacts
<1>3. fd_[o] \in Fd => own[o] # None /\ table[fd_[o]] = own[o]
  BY <1>1 DEF Owners, Fd
<1>4. foreign' = foreign
  BY <1>1, <1>3, SysCloseFacts
<1>5. ASSUME NEW q \in Obj \ {o}, own[q] # None
      PROVE  fd_[q] \in Fd /\ table'[fd_[q]] = own[q]
  <2>1. fd_[q] \in Fd /\ table[fd_[q]] = own[q] /\ own[q] # own[o]
    BY <1>5 DEF Owners
  <2> QED  BY <1>2, <1>3, <2>1
<1>6. ASSUME NEW h \in accepted \cup others
      PROVE  table'[h[1]] = h[2]
  <2>1. table[h[1]] = h[2] /\ own[o] # h[2] /\ h[1] \in Fd
    BY DEF Owners, TypeOK
  <2> QED  BY <1>2, <1>3, <2>1
<1> QED  BY <1>4, <1>5, <1>6

(* Until a close() fails every step keeps what each holder holds, and      *)
(* closes nothing foreign.                                                 *)
LEMMA OwnersStep ==
  ASSUME Basics, Owners, [Next]_vars, ~failed'
  PROVE  Owners' /\ foreign' = foreign
<1>0. TypeOK /\ OnceInTable /\ NoObject
  BY DEF Basics
<1>1. ASSUME NEW o \in Obj, NEW c \in Class, Open(o, c)
      PROVE  Owners' /\ foreign' = foreign
  <2>1. ASSUME NEW n \in Fd, NEW f \in File, Lowest(n), FreshFile(f),
               table' = [table EXCEPT ![n] = f], Becomes(o, c, n, f)
        PROVE  Owners'
    <3>1. /\ table[n] = None /\ table'[n] = f /\ f # None
          /\ \A m \in Fd : m # n => table'[m] = table[m]
          /\ \A q \in Obj : own[q] # f
          /\ \A h \in accepted \cup others : h[2] # f
      BY <1>0, <2>1, OpenFacts
    <3>2. /\ fd_'[o] = n /\ own'[o] = f
          /\ \A q \in Obj \ {o} : fd_'[q] = fd_[q] /\ own'[q] = own[q]
      BY <1>0, <2>1, BecomesFacts
    <3>3. \A h \in accepted \cup others : h[1] \in Fd /\ h[2] # None
      BY <1>0, DescriptorsAssumption DEF TypeOK
    <3> QED  BY <1>1, <3>1, <3>2, <3>3 DEF Open, Owners
  <2>2. ASSUME Becomes(o, c, -1, None), UNCHANGED table
        PROVE  Owners'
    <3>1. /\ fd_'[o] = -1 /\ own'[o] = None
          /\ \A q \in Obj \ {o} : fd_'[q] = fd_[q] /\ own'[q] = own[q]
      BY <1>0, <2>2, EmptyFacts
    <3>2. \A h \in accepted \cup others : h[2] # None
      BY <1>0, DescriptorsAssumption DEF TypeOK
    <3> QED  BY <1>1, <2>2, <3>1, <3>2 DEF Open, Owners
  <2> QED  BY <1>1, <2>1, <2>2 DEF Open
<1>2. ASSUME NEW o \in Obj, NEW p \in Obj, MoveConstruct(o, p)
      PROVE  Owners' /\ foreign' = foreign
  <2>1. /\ fd_'[o] = fd_[p] /\ own'[o] = own[p]
        /\ fd_'[p] \in {0, -1} /\ own'[p] = None
        /\ \A q \in Obj \ {o, p} : fd_'[q] = fd_[q] /\ own'[q] = own[q]
        /\ o # p
    BY <1>0, <1>2, MoveFacts DEF MoveConstruct
  <2>2. \A h \in accepted \cup others : h[2] # None
    BY <1>0, DescriptorsAssumption DEF TypeOK
  <2> QED  BY <1>2, <2>1, <2>2 DEF MoveConstruct, Owners
<1>3. ASSUME NEW o \in Obj, NEW p \in Obj, MoveAssign(o, p)
      PROVE  Owners' /\ foreign' = foreign
  <2>1. /\ fd_'[o] = fd_[p] /\ own'[o] = own[p]
        /\ fd_'[p] \in {0, -1} /\ own'[p] = None
        /\ \A q \in Obj \ {o, p} : fd_'[q] = fd_[q] /\ own'[q] = own[q]
        /\ o # p
    BY <1>0, <1>3, MoveFacts DEF MoveAssign
  <2>2. \A h \in accepted \cup others : h[2] # None
    BY <1>0, DescriptorsAssumption DEF TypeOK
  <2>3. /\ foreign' = foreign
        /\ \A q \in Obj \ {o} :
             own[q] # None => fd_[q] \in Fd /\ table'[fd_[q]] = own[q]
        /\ \A h \in accepted \cup others : table'[h[1]] = h[2]
    BY <1>0, <1>3, CloseOwned DEF MoveAssign, Owners
  <2> QED  BY <1>3, <2>1, <2>2, <2>3 DEF MoveAssign, Owners
<1>4. ASSUME NEW o \in Obj, Close(o)
      PROVE  Owners' /\ foreign' = foreign
  <2>1. /\ foreign' = foreign
        /\ \A q \in Obj \ {o} :
             own[q] # None => fd_[q] \in Fd /\ table'[fd_[q]] = own[q]
        /\ \A h \in accepted \cup others : table'[h[1]] = h[2]
    BY <1>0, <1>4, CloseOwned DEF Close
  <2>2. \A h \in accepted \cup others : h[2] # None
    BY <1>0, DescriptorsAssumption DEF TypeOK
  <2>3. CASE Becomes(o, "socket", -1, None) /\ UNCHANGED failed
    <3>1. /\ fd_'[o] = -1 /\ own'[o] = None
          /\ \A q \in Obj \ {o} : fd_'[q] = fd_[q] /\ own'[q] = own[q]
      BY <1>0, <2>3, EmptyFacts DEF Class
    <3> QED  BY <1>4, <2>1, <2>2, <3>1 DEF Close, Owners
  <2>4. CASE failed' = (failed \/ table[fd_[o]] # None) /\ UNCHANGED heldVars
    <3>1. fd_[o] \in Fd /\ own[o] \in File
      BY <1>0, <1>4 DEF TypeOK, Close, Owners, Fd
    <3>2. table[fd_[o]] # None
      BY <3>1, DescriptorsAssumption DEF Owners
    <3> QED  BY <2>4, <3>2
  <2> QED  BY <1>4, <2>3, <2>4 DEF Close
<1>5. ASSUME NEW o \in Obj, Destroy(o)
      PROVE  Owners' /\ foreign' = foreign
  <2>1. /\ fd_'[o] = -1 /\ own'[o] = None
        /\ \A q \in Obj \ {o} : fd_'[q] = fd_[q] /\ own'[q] = own[q]
    BY <1>0, <1>5, EmptyFacts DEF Destroy
  <2>2. \A h \in accepted \cup others : h[2] # None
    BY <1>0, DescriptorsAssumption DEF TypeOK
  <2>3. /\ foreign' = foreign
        /\ \A q \in Obj \ {o} :
             own[q] # None => fd_[q] \in Fd /\ table'[fd_[q]] = own[q]
        /\ \A h \in accepted \cup others : table'[h[1]] = h[2]
    BY <1>0, <1>5, CloseOwned DEF Destroy, Owners
  <2> QED  BY <1>5, <2>1, <2>2, <2>3 DEF Destroy, Owners
<1>6. ASSUME NEW o \in Obj, AcceptResumes(o)
      PROVE  Owners' /\ foreign' = foreign
  <2>1. PICK h \in accepted :
          /\ accepted' = accepted \ {h}
          /\ IF h[1] > 0
               THEN class[o] = "none" /\ Becomes(o, "socket", h[1], h[2])
               ELSE UNCHANGED heldVars
    BY <1>6 DEF AcceptResumes
  <2>2. h[1] \in Fd /\ h[2] \in File /\ h = <<h[1], h[2]>>
    BY <1>0 DEF TypeOK
  <2>3. \A g \in accepted \cup others :
          g[2] # None /\ g = <<g[1], g[2]>> /\ g[1] \in Fd
    BY <1>0, DescriptorsAssumption DEF TypeOK
  <2>4. \A g \in (accepted \ {h}) \cup others : g[2] # h[2]
    <3>1. \A g \in accepted \cup others : g[2] = h[2] => g = h
      BY <1>0, <2>2, <2>3, DescriptorsAssumption DEF Owners, OnceInTable
    <3> QED  BY <3>1 DEF Owners
  <2>5. CASE h[1] > 0
    <3>1. /\ fd_'[o] = h[1] /\ own'[o] = h[2]
          /\ \A q \in Obj \ {o} : fd_'[q] = fd_[q] /\ own'[q] = own[q]
      BY <1>0, <2>1, <2>2, <2>5, BecomesFacts DEF Class
    <3> QED  BY <1>6, <2>1, <2>2, <2>3, <2>4, <3>1, DescriptorsAssumption
                DEF AcceptResumes, Owners
  <2>6. CASE ~ (h[1] > 0)
    BY <1>6, <2>1, <2>6 DEF AcceptResumes, heldVars, Owners
  <2> QED  BY <2>5, <2>6
<1>7. CASE AcceptCompletes
  <2>1. PICK n \in Fd, f \in File : /\ Lowest(n) /\ FreshFile(f)
                                  /\ table' = [table EXCEPT ![n] = f]
                                  /\ accepted' = accepted \cup {<<n, f>>}
    BY <1>7 DEF AcceptCompletes
  <2>2. /\ table[n] = None /\ table'[n] = f /\ f # None
        /\ \A m \in Fd : m # n => table'[m] = table[m]
        /\ \A q \in Obj : own[q] # f
        /\ \A h \in accepted \cup others : h[2] # f
    BY <1>0, <2>1, OpenFacts
  <2>3. \A h \in accepted \cup others : h[1] \in Fd /\ h[2] # None
    BY <1>0, DescriptorsAssumption DEF TypeOK
  <2>4. <<n, f>>[1] = n /\ <<n, f>>[2] = f /\ <<n, f>> \notin accepted \cup others
    BY <2>2
  <2> QED  BY <1>7, <2>1, <2>2, <2>3, <2>4 DEF AcceptCompletes, heldVars, Owners
<1>8. CASE OtherOpens
  <2>1. PICK n \in Fd, f \in File : /\ Lowest(n) /\ FreshFile(f)
                                  /\ table' = [table EXCEPT ![n] = f]
                                  /\ others' = others \cup {<<n, f>>}
    BY <1>8 DEF OtherOpens
  <2>2. /\ table[n] = None /\ table'[n] = f /\ f # None
        /\ \A m \in Fd : m # n => table'[m] = table[m]
        /\ \A q \in Obj : own[q] # f
        /\ \A h \in accepted \cup others : h[2] # f
    BY <1>0, <2>1, OpenFacts
  <2>3. \A h \in accepted \cup others : h[1] \in Fd /\ h[2] # None
    BY <1>0, DescriptorsAssumption DEF TypeOK
  <2>4. <<n, f>>[1] = n /\ <<n, f>>[2] = f /\ <<n, f>> \notin accepted \cup others
    BY <2>2
  <2> QED  BY <1>8, <2>1, <2>2, <2>3, <2>4 DEF OtherOpens, heldVars, Owners
<1>9. CASE OtherCloses
  <2>1. PICK h \in others : SysClose(h[1], h[2]) /\ others' = others \ {h}
    BY <1>9 DEF OtherCloses
  <2>2. h[1] \in Fd /\ h[2] \in File /\ h = <<h[1], h[2]>>
    BY <1>0 DEF TypeOK
  <2>3. \A g \in accepted \cup others : g = <<g[1], g[2]>> /\ g[1] \in Fd
    BY <1>0 DEF TypeOK
  <2>4. table[h[1]] = h[2]
    BY DEF Owners
  <2>5. foreign' = foreign /\ \A m \in Fd : m # h[1] => table'[m] = table[m]
    BY <1>0, <2>1, <2>2, <2>4, SysCloseFacts
  <2>6. \A g \in accepted \cup (others \ {h}) : g[1] # h[1]
    BY <2>2, <2>3, <2>4 DEF Owners
  <2>7. \A q \in Obj : own[q] # None => fd_[q] # h[1]
    BY <2>4 DEF Owners
  <2> QED  BY <1>9, <2>1, <2>3, <2>5, <2>6, <2>7 DEF OtherCloses, heldVars, Owners
<1>10. CASE UNCHANGED vars
  BY <1>10 DEF vars, heldVars, Owners
<1> QED
  BY <1>1, <1>2, <1>3, <1>4, <1>5, <1>6, <1>7, <1>8, <1>9, <1>10 DEF Next

-----------------------------------------------------------------------------
(* A close takes at most the closer's own descriptor out of the table.     *)
LEMMA CloseOnly ==
  ASSUME TypeOK, NEW o \in Obj, SysClose(fd_[o], own[o])
  PROVE  \A m \in Fd : table'[m] # None => m # fd_[o] /\ table'[m] = table[m]
<1>1. fd_[o] \in Fd \cup {-1} /\ own[o] \in File \cup {None}
  BY DEF TypeOK
<1>2. /\ \A m \in Fd : m # fd_[o] => table'[m] = table[m]
      /\ fd_[o] \in Fd => table'[fd_[o]] = None
  BY <1>1, SysCloseFacts
<1> QED  BY <1>2

(* No step takes the last owner from an open descriptor above 0.           *)
LEMMA LostStep ==
  ASSUME Basics, NoDescriptorLost, [Next]_vars
  PROVE  NoDescriptorLost'
<1>0. TypeOK /\ NoObject
  BY DEF Basics
<1> DEFINE Owned(n) ==
      \/ \E o \in Obj : class[o] # "none" /\ fd_[o] = n /\ own[o] = table[n]
      \/ <<n, table[n]>> \in accepted \cup others
<1>a. \A n \in Fd \ {0} : table[n] # None => Owned(n)
  BY DEF NoDescriptorLost
<1> SUFFICES ASSUME NEW n \in Fd \ {0}, table'[n] # None
             PROVE  Owned(n)'
  BY DEF NoDescriptorLost
<1> HIDE DEF Owned
<1>1. ASSUME NEW o \in Obj, NEW c \in Class, Open(o, c)
      PROVE  Owned(n)'
  <2>1. ASSUME NEW m \in Fd, NEW f \in File, Lowest(m), FreshFile(f),
               table' = [table EXCEPT ![m] = f], Becomes(o, c, m, f)
        PROVE  Owned(n)'
    <3>1. table'[m] = f /\ \A k \in Fd : k # m => table'[k] = table[k]
      BY <1>0, <2>1, OpenFacts
    <3>2. /\ class'[o] = c /\ fd_'[o] = m /\ own'[o] = f
          /\ \A q \in Obj \ {o} : /\ class'[q] = class[q]
                                  /\ fd_'[q] = fd_[q] /\ own'[q] = own[q]
      BY <1>0, <2>1, BecomesFacts
    <3>3. CASE n = m
      BY <3>1, <3>2, <3>3 DEF Owned, Class
    <3>4. CASE n # m
      BY <1>1, <1>a, <3>1, <3>2, <3>4 DEF Open, Owned
    <3> QED  BY <3>3, <3>4
  <2>2. ASSUME Becomes(o, c, -1, None), UNCHANGED table
        PROVE  Owned(n)'
    <3>1. \A q \in Obj \ {o} : /\ class'[q] = class[q]
                              /\ fd_'[q] = fd_[q] /\ own'[q] = own[q]
      BY <1>0, <2>2, EmptyFacts
    <3> QED  BY <1>1, <1>a, <2>2, <3>1 DEF Open, Owned
  <2> QED  BY <1>1, <2>1, <2>2 DEF Open
<1>2. ASSUME NEW o \in Obj, NEW p \in Obj, MoveConstruct(o, p)
      PROVE  Owned(n)'
  <2>1. /\ class'[o] = class[p] /\ fd_'[o] = fd_[p] /\ own'[o] = own[p]
        /\ \A q \in Obj \ {o, p} : /\ class'[q] = class[q]
                                   /\ fd_'[q] = fd_[q] /\ own'[q] = own[q]
    BY <1>0, <1>2, MoveFacts DEF MoveConstruct
  <2> QED  BY <1>2, <1>a, <2>1 DEF MoveConstruct, Owned
<1>3. ASSUME NEW o \in Obj, NEW p \in Obj, MoveAssign(o, p)
      PROVE  Owned(n)'
  <2>1. /\ class'[o] = class[p] /\ fd_'[o] = fd_[p] /\ own'[o] = own[p]
        /\ \A q \in Obj \ {o, p} : /\ class'[q] = class[q]
                                   /\ fd_'[q] = fd_[q] /\ own'[q] = own[q]
    BY <1>0, <1>3, MoveFacts DEF MoveAssign
  <2>2. n # fd_[o] /\ table'[n] = table[n]
    <3>1. CASE fd_[o] > 0
      BY <1>0, <1>3, <3>1, CloseOnly DEF MoveAssign
    <3>2. CASE ~ (fd_[o] > 0)
      BY <1>3, <3>2 DEF MoveAssign, Fd
    <3> QED  BY <3>1, <3>2
  <2> QED  BY <1>3, <1>a, <2>1, <2>2 DEF MoveAssign, Owned
<1>4. ASSUME NEW o \in Obj, Close(o)
      PROVE  Owned(n)'
  <2>1. n # fd_[o] /\ table'[n] = table[n]
    BY <1>0, <1>4, CloseOnly DEF Close
  <2>2. CASE Becomes(o, "socket", -1, None) /\ UNCHANGED failed
    <3>1. \A q \in Obj \ {o} : /\ class'[q] = class[q]
                              /\ fd_'[q] = fd_[q] /\ own'[q] = own[q]
      BY <1>0, <2>2, EmptyFacts DEF Class
    <3> QED  BY <1>4, <1>a, <2>1, <3>1 DEF Close, Owned
  <2>3. CASE failed' = (failed \/ table[fd_[o]] # None) /\ UNCHANGED heldVars
    BY <1>4, <1>a, <2>1, <2>3 DEF Close, heldVars, Owned
  <2> QED  BY <1>4, <2>2, <2>3 DEF Close
<1>5. ASSUME NEW o \in Obj, Destroy(o)
      PROVE  Owned(n)'
  <2>1. \A q \in Obj \ {o} : /\ class'[q] = class[q]
                            /\ fd_'[q] = fd_[q] /\ own'[q] = own[q]
    BY <1>0, <1>5, EmptyFacts DEF Destroy
  <2>2. n # fd_[o] /\ table'[n] = table[n]
    <3>1. CASE SysClose(fd_[o], own[o])
      BY <1>0, <3>1, CloseOnly
    <3>2. CASE ~ (fd_[o] > 0) /\ UNCHANGED <<table, foreign>>
      BY <3>2 DEF Fd
    <3> QED  BY <1>0, <1>5, <3>1, <3>2 DEF Destroy, TypeOK, Fd
  <2> QED  BY <1>5, <1>a, <2>1, <2>2 DEF Destroy, Owned
<1>6. ASSUME NEW o \in Obj, AcceptResumes(o)
      PROVE  Owned(n)'
  <2>1. PICK h \in accepted :
          /\ accepted' = accepted \ {h}
          /\ IF h[1] > 0
               THEN class[o] = "none" /\ Becomes(o, "socket", h[1], h[2])
               ELSE UNCHANGED heldVars
    BY <1>6 DEF AcceptResumes
  <2>2. h[1] \in Fd /\ h[2] \in File /\ h = <<h[1], h[2]>>
    BY <1>0 DEF TypeOK
  <2>3. table'[n] = table[n]
    BY <1>6 DEF AcceptResumes
  <2>4. CASE h[1] > 0
    <3>1. /\ class'[o] = "socket" /\ fd_'[o] = h[1] /\ own'[o] = h[2]
          /\ \A q \in Obj \ {o} : /\ class'[q] = class[q]
                                  /\ fd_'[q] = fd_[q] /\ own'[q] = own[q]
      BY <1>0, <2>1, <2>2, <2>4, BecomesFacts DEF Class
    <3>2. CASE <<n, table[n]>> = h
      BY <2>2, <2>3, <3>1, <3>2 DEF Owned
    <3>3. CASE <<n, table[n]>> # h
      BY <1>6, <1>a, <2>1, <2>3, <2>4, <3>1, <3>3 DEF AcceptResumes, Owned
    <3> QED  BY <3>2, <3>3
  <2>5. CASE ~ (h[1] > 0)
    <3>1. <<n, table[n]>> # h
      BY <2>2, <2>5 DEF Fd
    <3> QED  BY <1>6, <1>a, <2>1, <2>3, <2>5, <3>1
                DEF AcceptResumes, heldVars, Owned
  <2> QED  BY <2>4, <2>5
<1>7. CASE AcceptCompletes
  <2>1. PICK m \in Fd, f \in File : /\ Lowest(m) /\ FreshFile(f)
                                  /\ table' = [table EXCEPT ![m] = f]
                                  /\ accepted' = accepted \cup {<<m, f>>}
    BY <1>7 DEF AcceptCompletes
  <2>2. table'[m] = f /\ \A k \in Fd : k # m => table'[k] = table[k]
    BY <1>0, <2>1, OpenFacts
  <2> QED  BY <1>7, <1>a, <2>1, <2>2 DEF AcceptCompletes, heldVars, Owned
<1>8. CASE OtherOpens
  <2>1. PICK m \in Fd, f \in File : /\ Lowest(m) /\ FreshFile(f)
                                  /\ table' = [table EXCEPT ![m] = f]
                                  /\ others' = others \cup {<<m, f>>}
    BY <1>8 DEF OtherOpens
  <2>2. table'[m] = f /\ \A k \in Fd : k # m => table'[k] = table[k]
    BY <1>0, <2>1, OpenFacts
  <2> QED  BY <1>8, <1>a, <2>1, <2>2 DEF OtherOpens, heldVars, Owned
<1>9. CASE OtherCloses
  <2>1. PICK h \in others : SysClose(h[1], h[2]) /\ others' = others \ {h}
    BY <1>9 DEF OtherCloses
  <2>2. h[1] \in Fd /\ h[2] \in File /\ h = <<h[1], h[2]>>
    BY <1>0 DEF TypeOK
  <2>3. table'[h[1]] = None /\ \A m \in Fd : m # h[1] => table'[m] = table[m]
    BY <1>0, <2>1, <2>2, SysCloseFacts
  <2>4. n # h[1] /\ table'[n] = table[n] /\ <<n, table[n]>> # h
    BY <2>2, <2>3
  <2> QED  BY <1>9, <1>a, <2>1, <2>4 DEF OtherCloses, heldVars, Owned
<1>10. CASE UNCHANGED vars
  BY <1>10, <1>a DEF vars, heldVars, Owned
<1> QED
  BY <1>1, <1>2, <1>3, <1>4, <1>5, <1>6, <1>7, <1>8, <1>9, <1>10 DEF Next

-----------------------------------------------------------------------------
(* Once a close() has failed, one has failed.                              *)
LEMMA FailedStays ==
  ASSUME TypeOK, [Next]_vars, failed
  PROVE  failed'
  BY DEF Next, vars, Open, MoveConstruct, MoveAssign, Close, Destroy,
         AcceptResumes, AcceptCompletes, OtherOpens, OtherCloses

OwnersInv == Basics /\ NoDescriptorLost /\ (failed \/ (Owners /\ foreign = FALSE))

(* The invariant holds in every reachable state of sockets and files.      *)
THEOREM OwnersAlways == Spec => []OwnersInv
<1>1. Init => OwnersInv
  <2> SUFFICES ASSUME Init PROVE OwnersInv
    OBVIOUS
  <2>1. PICK f \in File \cup {None} :
          /\ table = [n \in Fd |-> IF n = 0 THEN f ELSE None]
          /\ others = IF f = None THEN {} ELSE {<<0, f>>}
    BY DEF Init
  <2>2. 0 \in Fd
    BY DescriptorsAssumption DEF Fd
  <2>3. Basics
    <3>1. others \subseteq Fd \X File /\ table \in [Fd -> File \cup {None}]
      BY <2>1, <2>2
    <3>2. TypeOK
      BY <3>1 DEF Init, TypeOK
    <3>3. OnceInTable
      BY <2>1 DEF OnceInTable
    <3>4. NoObject
      BY DEF Init, NoObject
    <3> QED  BY <3>2, <3>3, <3>4 DEF Basics
  <2>4. Owners
    BY <2>1, <2>2 DEF Init, Owners
  <2>5. NoDescriptorLost
    BY <2>1 DEF NoDescriptorLost
  <2> QED  BY <2>3, <2>4, <2>5 DEF OwnersInv, Init
<1>2. OwnersInv /\ [Next]_vars => OwnersInv'
  BY BasicsStep, LostStep, OwnersStep, FailedStays DEF OwnersInv, Basics
<1> QED  BY <1>1, <1>2, PTL DEF Spec

(* The state of the three classes and of the table stays well-formed.      *)
THEOREM DescriptorsTyped == Spec => []TypeOK
<1>1. OwnersInv => TypeOK
  BY DEF OwnersInv, Basics
<1> QED  BY <1>1, OwnersAlways, PTL

(* Moves, assignments, closes and destructors in any order close only what *)
(* is their own until a socket::close() has failed, whatever the number of *)
(* objects and descriptors.                                                *)
THEOREM ForeignNeverClosed == Spec => []NoForeignClose
<1>1. OwnersInv => NoForeignClose
  BY DEF OwnersInv, NoForeignClose
<1> QED  BY <1>1, OwnersAlways, PTL

(* Open descriptors above 0 always have an owner, also after failures.     *)
THEOREM DescriptorsKept == Spec => []NoDescriptorLost
<1>1. OwnersInv => NoDescriptorLost
  BY DEF OwnersInv
<1> QED  BY <1>1, OwnersAlways, PTL

(* What an object holds is what it was given, and nobody else holds it.    *)
THEOREM HeldAlone == Spec => []HeldIsOwned
<1>1. OwnersInv => HeldIsOwned
  <2> SUFFICES ASSUME OwnersInv, ~failed, NEW o \in Obj, own[o] # None
               PROVE  /\ fd_[o] \in Fd /\ table[fd_[o]] = own[o]
                      /\ \A p \in Obj \ {o} : own[p] # own[o]
                      /\ \A h \in accepted \cup others : h[1] # fd_[o]
    BY DEF HeldIsOwned
  <2>1. Owners
    BY DEF OwnersInv
  <2> QED  BY <2>1 DEF Owners
<1> QED  BY <1>1, OwnersAlways, PTL
=============================================================================
