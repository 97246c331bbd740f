----------------------- MODULE CliImplementsVaultFile -----------------------
(***************************************************************************)
(* The commands implement the vault file, if one of them at a time changes *)
(* files.  A change takes place when the command empties the file: from    *)
(* then on the file stands for what is being written to it.                *)
(***************************************************************************)
EXTENDS AegisCli

(* The contents of a file, or those it is about to have; none if it is not
   there. *)
Stands(path) ==
  IF \E t \in Terminal : At(t, "write", path)
  THEN {proc[t].data : t \in {u \in Terminal : At(u, "write", path)}}
  ELSE {file[path]} \ {None}

(* The tables that are read from what there is of a vault file: none if it is
   broken. *)
TablesIn(contents) ==
  {parsed.val : parsed \in
     {read \in {from_bytes(VaultBytes(cells), cells[1].header_salt) :
                  cells \in {c \in contents : IsVault(c)}} : read.ok}}

UsersIn(contents) ==
  UNION {{p \in Passphrase : Opens(table, p) # {}} : table \in TablesIn(contents)}

(* The value a set has one of, or None. *)
The(values) == IF values = {} THEN None ELSE CHOOSE v \in values : TRUE

(* The verifier is made from the volume. *)
VolumeIn(contents) == The({table.verifier.data : table \in TablesIn(contents)})

(* The volume that gives its users the key, or None if it is nobody's. *)
VolumeUnder(key) == The({m \in Master : from_master(m)["Enc"] = key})

SealedIn(contents) ==
  The({[text |-> cells[2].ct.msg, volume |-> VolumeUnder(cells[2].ct.key)] :
         cells \in {c \in contents : IsBlob(c)}})

Told == {m.passphrase : m \in members}

VaultFile == INSTANCE VaultFile WITH
  User <- Passphrase, Text <- Plaintext, VolumeOf <- MasterOf, Nothing <- None,
  users <- UsersIn(Stands("vault")), volume <- VolumeIn(Stands("vault")), told <- Told,
  sealed <- SealedIn(Stands("sealed"))

(* Read, changed and written back piece by piece, with readers at every point
   and deaths at any, the vault file is one register of a volume and its users:
   only a user lets in another, nobody leaves but by a new init or a writer's
   death, who is told of access has it, and what a user seals is under the
   volume of all of them (aegis.rs:84-189). *)
FileSpec == VaultFile!Spec
=============================================================================
