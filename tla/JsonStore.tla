------------------------------ MODULE JsonStore ------------------------------
(***************************************************************************)
(* The configuration document of dem (dem/json.c), as operators from an    *)
(* old document to the outcome of a call: the status it returns, the new   *)
(* document, and the values it copies out for its caller.                  *)
(*                                                                         *)
(* The document is a record of three arrays.  Arrays are sequences, since  *)
(* one function confuses the index of one array with that of another.  An  *)
(* array that is missing is an empty one: every function treats them       *)
(* alike.  The body of a request is a record with a field for each tag the *)
(* function looks up; the field of a tag that is not in the body is NONE.  *)
(* A body that is no JSON at all makes every function return before it     *)
(* changes anything; it is left out.                                       *)
(***************************************************************************)
EXTENDS Naturals, Sequences, FiniteSets, SequencesExt

CONSTANT NONE    \* an absent tag, a NULL argument

-----------------------------------------------------------------------------
(* Statuses and outcomes *)

Done(root)     == [ret |-> "ok", root |-> root]
Fail(ret, root) == [ret |-> ret, root |-> root]

-----------------------------------------------------------------------------
(* find_array, find_array_int, find_array_string: the first match, or 0.   *)

find_alias(array, alias) == SelectInSeq(array, LAMBDA o : o.alias = alias)
find_name(array, name)   == SelectInSeq(array, LAMBDA o : o.name = name)
find_nqn(array, nqn)     == SelectInSeq(array, LAMBDA o : o.nqn = nqn)
find_int(array, id)      == SelectInSeq(array, LAMBDA o : o.id = id)
find_array_string(array, val) == SelectInSeq(array, LAMBDA s : s = val)

\* Remove element i of an array, if there is one (json_array_remove).
ArrayRemove(array, i) ==
    IF i \in 1..Len(array) THEN RemoveAt(array, i) ELSE array

\* An array with its first string "old" replaced, or its first "val" removed.
RenameString(array, old, new) ==
    LET i == find_array_string(array, old)
    IN  IF i = 0 THEN array ELSE ReplaceAt(array, i, new)
DeleteString(array, val) == ArrayRemove(array, find_array_string(array, val))

Aliases(array) == {array[i].alias : i \in DOMAIN array}
Names(array)   == {array[i].name : i \in DOMAIN array}

-----------------------------------------------------------------------------
(* Walks over every group *)

rename_in_groups(root, tag, member, alias) ==
    [root EXCEPT !.groups = [i \in DOMAIN @ |->
        [@[i] EXCEPT ![tag] = RenameString(@, member, alias)]]]

del_from_groups(root, tag, member) ==
    [root EXCEPT !.groups = [i \in DOMAIN @ |->
        [@[i] EXCEPT ![tag] = DeleteString(@, member)]]]

-----------------------------------------------------------------------------
(* Walks over the allowed hosts of every subsystem *)

rename_in_allowed_hosts(root, old, new) ==
    [root EXCEPT !.targets = [i \in DOMAIN @ |->
        [@[i] EXCEPT !.subsystems = [j \in DOMAIN @ |->
            [@[j] EXCEPT !.hosts = RenameString(@, old, new)]]]]]

\* For the i-th target the code looks at its i-th subsystem, as many times as
\* the target had subsystems, and removes the subsystem whose index is the
\* position of the host in the list of allowed hosts.
DelFromTarget(subsystems, i, alias) ==
    LET Look(array, j) ==
            LET idx == IF i \in DOMAIN array
                       THEN find_array_string(array[i].hosts, alias) ELSE 0
            IN  ArrayRemove(array, idx)
    IN  FoldLeft(Look, subsystems, [j \in DOMAIN subsystems |-> j])

del_from_allowed_hosts(root, alias) ==
    [root EXCEPT !.targets = [i \in DOMAIN @ |->
        [@[i] EXCEPT !.subsystems = DelFromTarget(@, i, alias)]]]

-----------------------------------------------------------------------------
(* Groups *)

NewGroup(name) == [name |-> name, hosts |-> <<>>, targets |-> <<>>]

add_json_group(root, group) ==
    IF find_name(root.groups, group) # 0 THEN Fail("EEXIST", root)
    ELSE Done([root EXCEPT !.groups = Append(@, NewGroup(group))])

\* group is NONE when a group is created with PUT.
update_json_group(root, group, newname) ==
    LET i == find_name(root.groups, group)
    IN  IF group # NONE /\ i = 0 THEN Fail("ENOENT", root)
        ELSE IF newname = NONE THEN Fail("EINVAL", root)
        ELSE IF group # newname /\ find_name(root.groups, newname) # 0
            THEN Fail("EEXIST", root)
        ELSE IF group # NONE
            THEN Done([root EXCEPT !.groups[i].name = newname])
        ELSE Done([root EXCEPT !.groups = Append(@, NewGroup(newname))])

\* tag is the array of both the document and the group: "hosts", "targets".
set_json_group_member(root, group, alias, tag) ==
    LET i == find_name(root.groups, group)
    IN  IF i = 0 \/ alias \notin Aliases(root[tag]) THEN Fail("ENOENT", root)
        ELSE IF find_array_string(root.groups[i][tag], alias) # 0
            THEN Done(root)
        ELSE Done([root EXCEPT !.groups[i][tag] = Append(@, alias)])

del_json_group_member(root, group, member, tag) ==
    LET i == find_name(root.groups, group)
    IN  IF i = 0 THEN Fail("ENOENT", root)
        ELSE IF find_array_string(root.groups[i][tag], member) = 0
            THEN Fail("ENOENT", root)
        ELSE Done([root EXCEPT !.groups[i][tag] = DeleteString(@, member)])

del_json_group(root, group) ==
    LET i == find_name(root.groups, group)
    IN  IF i = 0 THEN Fail("ENOENT", root)
        ELSE Done([root EXCEPT !.groups = RemoveAt(@, i)])

-----------------------------------------------------------------------------
(* Hosts *)

add_json_host(root, host) ==
    IF find_alias(root.hosts, host) # 0 THEN Fail("EEXIST", root)
    ELSE Done([root EXCEPT !.hosts =
                  Append(@, [alias |-> host, nqn |-> NONE])])

get_json_host_nqn(root, host) ==
    LET i == find_alias(root.hosts, host)
    IN  IF i = 0 THEN NONE ELSE root.hosts[i].nqn

\* host is NONE for a PUT without a name.  "alias" and "nqn" of the outcome are
\* copied out; nqn is NONE when the caller's buffer is not written.
update_json_host(root, host, data) ==
    LET i       == find_alias(root.hosts, host)
        renamed == data.alias # NONE /\ data.alias # host
        alias   == IF data.alias # NONE THEN data.alias ELSE host
        root1   == IF ~renamed THEN root
                   ELSE IF host = NONE
                   THEN [root EXCEPT !.hosts =
                            Append(@, [alias |-> alias, nqn |-> NONE])]
                   ELSE rename_in_groups(
                            rename_in_allowed_hosts(
                                [root EXCEPT !.hosts[i].alias = alias],
                                host, alias),
                            "hosts", host, alias)
        k       == find_alias(root1.hosts, alias)
        root2   == IF data.nqn = NONE THEN root1
                   ELSE [root1 EXCEPT !.hosts[k].nqn = data.nqn]
    IN  IF host # NONE /\ i = 0 THEN Fail("ENOENT", root)
        ELSE IF host = NONE /\ data.alias = NONE THEN Fail("EINVAL", root)
        ELSE IF renamed /\ find_alias(root.hosts, data.alias) # 0
            THEN Fail("EEXIST", root)
        ELSE [ret |-> "ok", root |-> root2, alias |-> alias, nqn |-> data.nqn]

del_json_host(root, alias) ==
    LET i == find_alias(root.hosts, alias)
    IN  IF i = 0 THEN Fail("ENOENT", root)
        ELSE [ret  |-> "ok",
              root |-> del_from_groups(
                           del_from_allowed_hosts(
                               [root EXCEPT !.hosts = RemoveAt(@, i)], alias),
                           "hosts", alias),
              nqn  |-> root.hosts[i].nqn]

-----------------------------------------------------------------------------
(* Subsystems.  Access is "restricted" (AllowAny 0), "any" (1) or NONE (the *)
(* tag is absent, UNDEFINED_ACCESS in the lists of dem).                    *)

Subsys(root, t, nqn) == find_nqn(root.targets[t].subsystems, nqn)

\* subnqn is NONE when a subsystem is created; data is NONE for an empty body.
set_json_subsys(root, alias, subnqn, data) ==
    LET t     == find_alias(root.targets, alias)
        array == root.targets[t].subsystems
        i     == find_nqn(array, subnqn)
        nqn   == IF data.nqn # NONE THEN data.nqn ELSE subnqn
        old   == IF subnqn # NONE THEN array[i]
                 ELSE [nqn |-> nqn, access |-> NONE, nsids |-> <<>>,
                       hosts |-> <<>>]
        new   == [old EXCEPT
                    !.nqn    = nqn,
                    !.access = IF data.access # NONE THEN data.access ELSE @,
                    !.hosts  = IF data.access = "restricted" THEN @ ELSE <<>>]
    IN  IF t = 0 \/ (subnqn # NONE /\ i = 0) THEN Fail("ENOENT", root)
        ELSE IF data = NONE
            THEN IF subnqn = NONE THEN Fail("EINVAL", root)
                 ELSE [ret |-> "ok", root |-> root, nqn |-> NONE,
                       access |-> NONE]
        ELSE IF /\ data.nqn # NONE
                /\ data.nqn # subnqn
                /\ find_nqn(array, data.nqn) # 0
            THEN Fail("EEXIST", root)
        ELSE IF subnqn = NONE /\ data.nqn = NONE THEN Fail("EINVAL", root)
        ELSE [ret    |-> "ok",
              root   |-> [root EXCEPT !.targets[t].subsystems =
                             IF subnqn = NONE THEN Append(@, new)
                             ELSE ReplaceAt(@, i, new)],
              nqn    |-> nqn,
              access |-> data.access]

del_json_subsys(root, alias, subnqn) ==
    LET t == find_alias(root.targets, alias)
    IN  IF t = 0 THEN Fail("ENOENT", root)
        ELSE IF Subsys(root, t, subnqn) = 0 THEN Fail("ENOENT", root)
        ELSE Done([root EXCEPT !.targets[t].subsystems =
                      RemoveAt(@, Subsys(root, t, subnqn))])

-----------------------------------------------------------------------------
(* Ports.  addr stands for type, family, address and service id.           *)

\* id is 0 when the port is named in the body only.  The outcome's id and addr
\* are NONE where the caller's structure is not written.
set_json_portid(root, target, id, data) ==
    LET t     == find_alias(root.targets, target)
        key   == IF id # 0 THEN id ELSE data.id
        array == root.targets[t].portids
        i     == find_int(array, key)
        old   == IF i = 0 THEN [id |-> key, addr |-> NONE] ELSE array[i]
        new   == [id   |-> IF data.id # NONE THEN data.id ELSE old.id,
                  addr |-> IF data.addr # NONE THEN data.addr ELSE old.addr]
    IN  IF t = 0 THEN Fail("ENOENT", root)
        ELSE IF key = NONE THEN Fail("EINVAL", root)
        ELSE [ret  |-> "ok",
              root |-> [root EXCEPT !.targets[t].portids =
                           IF i = 0 THEN Append(@, new)
                           ELSE ReplaceAt(@, i, new)],
              id   |-> data.id,
              addr |-> data.addr]

del_json_portid(root, alias, id) ==
    LET t == find_alias(root.targets, alias)
    IN  IF t = 0 THEN Fail("ENOENT", root)
        ELSE IF find_int(root.targets[t].portids, id) = 0
            THEN Fail("ENOENT", root)
        ELSE Done([root EXCEPT !.targets[t].portids =
                      RemoveAt(@, find_int(@, id))])

-----------------------------------------------------------------------------
(* Namespaces.  dev stands for the device id and the id on the device.      *)

set_json_ns(root, alias, subnqn, data) ==
    LET t == find_alias(root.targets, alias)
        s == Subsys(root, t, subnqn)
        i == find_int(root.targets[t].subsystems[s].nsids, data.id)
        ns == [id |-> data.id, dev |-> data.dev]
    IN  IF t = 0 THEN Fail("ENOENT", root)
        ELSE IF s = 0 THEN Fail("ENOENT", root)
        ELSE Done([root EXCEPT !.targets[t].subsystems[s].nsids =
                      IF i = 0 THEN Append(@, ns) ELSE ReplaceAt(@, i, ns)])

del_json_ns(root, alias, subnqn, nsid) ==
    LET t == find_alias(root.targets, alias)
        s == Subsys(root, t, subnqn)
        i == find_int(root.targets[t].subsystems[s].nsids, nsid)
    IN  IF t = 0 THEN Fail("ENOENT", root)
        ELSE IF s = 0 THEN Fail("ENOENT", root)
        ELSE IF i = 0 THEN Fail("ENOENT", root)
        ELSE Done([root EXCEPT !.targets[t].subsystems[s].nsids =
                      RemoveAt(@, i)])

-----------------------------------------------------------------------------
(* Allowed hosts *)

\* Mutated: the host is on the list before it is looked for there.
SetJsonAclFirst(root, tgt, subnqn, alias) ==
    LET t == find_alias(root.targets, tgt)
        s == Subsys(root, t, subnqn)
        h == find_alias(root.hosts, alias)
        new == [root EXCEPT !.targets[t].subsystems[s].hosts = Append(@, alias)]
    IN  IF t = 0 THEN Fail("ENOENT", root)
        ELSE IF s = 0 \/ h = 0 THEN Fail("ENOENT", root)
        ELSE IF find_array_string(root.targets[t].subsystems[s].hosts, alias) # 0
            THEN Fail("EEXIST", new)
        ELSE [ret |-> "ok", root |-> new, nqn |-> root.hosts[h].nqn]

\* nqn is copied out.
set_json_acl(root, tgt, subnqn, alias) ==
    LET t == find_alias(root.targets, tgt)
        s == Subsys(root, t, subnqn)
        h == find_alias(root.hosts, alias)
    IN  IF t = 0 THEN Fail("ENOENT", root)
        ELSE IF s = 0 \/ h = 0 THEN Fail("ENOENT", root)
        ELSE IF find_array_string(root.targets[t].subsystems[s].hosts, alias)
                # 0
            THEN Fail("EEXIST", root)
        ELSE IF root.hosts[h].nqn = NONE THEN Fail("EINVAL", root)
        ELSE [ret  |-> "ok",
              root |-> [root EXCEPT !.targets[t].subsystems[s].hosts =
                           Append(@, alias)],
              nqn  |-> root.hosts[h].nqn]

del_json_acl(root, alias, subnqn, host) ==
    LET t == find_alias(root.targets, alias)
        s == Subsys(root, t, subnqn)
    IN  IF t = 0 THEN Fail("ENOENT", root)
        ELSE IF s = 0 THEN Fail("ENOENT", root)
        ELSE IF find_array_string(root.targets[t].subsystems[s].hosts, host)
                = 0
            THEN Fail("ENOENT", root)
        ELSE Done([root EXCEPT !.targets[t].subsystems[s].hosts =
                      DeleteString(@, host)])

-----------------------------------------------------------------------------
(* Targets.  mode is "local", "inb", "oob" or NONE (the tag is absent);     *)
(* iface tells whether the target has an interface object.                 *)

NewTarget(alias) ==
    [alias |-> alias, mode |-> NONE, refresh |-> NONE, iface |-> FALSE,
     portids |-> <<>>, subsystems |-> <<>>, nsdevs |-> <<>>]

add_json_target(root, alias) ==
    IF find_alias(root.targets, alias) # 0 THEN Fail("EEXIST", root)
    ELSE Done([root EXCEPT !.targets = Append(@, NewTarget(alias))])

get_mgmt_mode(mode) == IF mode \in {"oob", "inb"} THEN mode ELSE "local"

\* alias is NONE when a target is created with PUT.  The caller's structure is
\* zeroed before, so a body without a mode is read as local management.
update_json_target(root, alias, data) ==
    LET i       == find_alias(root.targets, alias)
        renamed == data.alias # NONE /\ data.alias # alias
        name    == IF data.alias # NONE THEN data.alias ELSE alias
        root1   == IF ~renamed THEN root
                   ELSE IF alias = NONE
                   THEN [root EXCEPT !.targets = Append(@, NewTarget(name))]
                   ELSE rename_in_groups([root EXCEPT !.targets[i].alias = name],
                                         "targets", alias, name)
        k       == find_alias(root1.targets, name)
        mode    == get_mgmt_mode(data.mode)
        new     == [root1.targets[k] EXCEPT
                      !.refresh = IF data.refresh # NONE THEN data.refresh
                                  ELSE @,
                      !.mode    = IF data.mode # NONE THEN data.mode ELSE @,
                      !.iface   = mode # "local" /\ (@ \/ data.iface)]
    IN  IF alias # NONE /\ i = 0 THEN Fail("ENOENT", root)
        ELSE IF alias = NONE /\ data.alias = NONE THEN Fail("EINVAL", root)
        ELSE IF renamed /\ find_alias(root.targets, data.alias) # 0
            THEN Fail("EEXIST", root)
        ELSE [ret     |-> "ok",
              root    |-> [root1 EXCEPT !.targets = ReplaceAt(@, k, new)],
              alias   |-> name,
              mode    |-> mode,
              refresh |-> IF data.refresh # NONE THEN data.refresh ELSE 0]

del_json_target(root, alias) ==
    LET i == find_alias(root.targets, alias)
    IN  IF i = 0 THEN Fail("ENOENT", root)
        ELSE Done(del_from_groups([root EXCEPT !.targets = RemoveAt(@, i)],
                                  "targets", alias))

\* The devices that a target reports: all at once, or one after the other.
set_json_oob_nsdevs(root, alias, devs) ==
    LET t == find_alias(root.targets, alias)
    IN  [root EXCEPT !.targets[t].nsdevs = devs]

set_json_inb_nsdev(root, alias, dev) ==
    LET t == find_alias(root.targets, alias)
    IN  [root EXCEPT !.targets[t].nsdevs = <<dev>>]

\* What a host is shown to have: the subsystems open to all and those that
\* list the host, of the targets that the lists of dem let it see.
get_host_subsystems(root, host, seen) ==
    UNION {{<<tg.alias, s.nqn>> :
               s \in {r \in Range(tg.subsystems) :
                         r.access = "any" \/ Contains(r.hosts, host)}} :
           tg \in {d \in Range(root.targets) : d.alias \in seen}}
=============================================================================
