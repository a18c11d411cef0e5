------------------------------ MODULE Permissions ------------------------------
(***************************************************************************)
(* sysaug/src/aug_perms.rs and the id part of config.rs: the ids that the  *)
(* tracer keeps for a tracee (perms_ids), and what the get*id and set*id   *)
(* syscalls do with them.                                                  *)
(*                                                                         *)
(* A slot is a set of at most one id.  An argument is a register of        *)
(* WordBits bits that holds an id of IntBits bits, extended with zeroes or *)
(* with its sign.                                                          *)
(***************************************************************************)
EXTENDS Integers, FiniteSets, SyscallTable

CONSTANTS IntBits, WordBits

ASSUME WidthAssumption == IntBits \in Nat \ {0} /\ WordBits \in Nat /\ IntBits < WordBits

EINVAL == 22
ENOSYS == 38
Slots == 0..7

IsNegative(reg) == reg % 2^IntBits >= 2^(IntBits - 1)

\* init_perms_ids_from_config.  ResfUgType numbers the ids of the user from 0 and those of
\* the group from 4; the table has them the other way round.
ResfIndex ==
    [realUid |-> 0, effectiveUid |-> 1, savedSetUid |-> 2, fileSystemUid |-> 3,
     realGid |-> 4, effectiveGid |-> 5, savedSetGid |-> 6, fileSystemGid |-> 7]

init_perms_ids_from_config(root_ids) ==
    [s \in Slots |-> {root_ids[t] : t \in {u \in DOMAIN root_ids : ResfIndex[u] = s}}]

\* walk_res_bits: the registers that the mask names, with their slots.  The mask of the
\* table marks an id of the user by bit 4; here it is looked for in bit 2.
walk_res_bits(row) ==
    {<<i, IF 2 \in row.res_bits THEN 4 + i ELSE i>> : i \in row.res_bits \cap {0, 1}}

handle_setid(mode, id) ==
    IF mode = "RootOnly" /\ id >= (2^WordBits - 1) \div 2 THEN 0 ELSE id

Kept(ids) == [ids |-> ids, skip |-> {}]

\* Mutant: the outcome is tested for success, and the masks are as they are.
do_sysenter_perms_stores(ids, mode, row, args) ==
    LET slots == walk_res_bits(row) \cup {<<0, s>> : s \in row.resf_bit}
        fails == \E p \in slots : IsNegative(args[p[1]])
    IN IF ~row.is_setter \/ mode = "Passthrough" \/ slots = {} THEN Kept(ids)
       ELSE IF fails THEN [ids |-> ids, skip |-> {-EINVAL}]
       ELSE [ids |-> [s \in Slots |-> IF \E p \in slots : p[2] = s
                                      THEN {handle_setid(mode, args[p[1]]) : p \in {q \in slots : q[2] = s}}
                                      ELSE ids[s]],
             skip |-> {0}]

\* The ids after the entry of a syscall, and the value it returns if it is skipped.
do_sysenter_perms(ids, mode, row, args) ==
    LET pairs == walk_res_bits(row)
        retval == IF \E p \in pairs : IsNegative(args[p[1]]) THEN -EINVAL ELSE 0
        stored == [s \in Slots |-> IF \E p \in pairs : p[2] = s
                                   THEN {handle_setid(mode, args[p[1]]) : p \in {q \in pairs : q[2] = s}}
                                   ELSE ids[s]]
    IN IF ~row.is_setter \/ mode = "Passthrough" THEN Kept(ids)
       ELSE IF row.resf_bit # {}
            THEN IF IsNegative(args[0]) THEN [ids |-> ids, skip |-> {-EINVAL}]
                 ELSE [ids |-> [s \in Slots |-> IF s \in row.resf_bit
                                                THEN {handle_setid(mode, args[0])} ELSE ids[s]],
                       skip |-> {0}]
       ELSE IF row.res_bits # {}
            THEN [ids |-> IF retval > 0 THEN stored ELSE ids, skip |-> {retval}]
       ELSE Kept(ids)

\* The value returned after the syscall has run and returned ret.  (No row of the table is
\* a getter with a mask, which would write the ids through pointers.)
do_sysexit_perms(ids, mode, row, ret) ==
    IF row.is_setter \/ mode = "Passthrough" \/ row.res_bits # {} THEN ret
    ELSE IF row.resf_bit # {}
         THEN LET slot == UNION {ids[s] : s \in row.resf_bit}
              IN IF slot = {} THEN ret ELSE CHOOSE id \in slot : TRUE
    ELSE IF ret < 0 THEN 0 ELSE ret

\* augment_sys_perms, and the same two halves in the handler of SIGSYS: the ids and the
\* result, if the kernel would return ret.
augment_sys_perms(ids, mode, row, args, ret) ==
    LET enter == do_sysenter_perms(ids, mode, row, args)
    IN [ids |-> enter.ids,
        ret |-> IF enter.skip # {} THEN CHOOSE r \in enter.skip : TRUE
                ELSE do_sysexit_perms(enter.ids, mode, row, ret)]

\* exec_setid!: executing a set-id file sets the effective user and group.
exec_setid(ids, file) ==
    [s \in Slots |-> IF s = 5 /\ file.setuid THEN {file.uid}
                     ELSE IF s = 1 /\ file.setgid THEN {file.gid} ELSE ids[s]]
===============================================================================
