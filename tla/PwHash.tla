------------------------------- MODULE PwHash -------------------------------
(***************************************************************************)
(* verify_pwd of lib/passwd_compare.c: does a password belong to the hash  *)
(* in /etc/shadow?  Traditional hashes are bigcrypt's (lib/bigcrypt.c),    *)
(* which splits a long password into segments of eight characters and uses *)
(* each encrypted segment as the salt of the next.                         *)
(*                                                                         *)
(* crypt(3) and MD5 are taken for functions that never give the same text  *)
(* for different arguments: their results are the arguments themselves.    *)
(***************************************************************************)
EXTENDS PwInput

CONSTANTS Secrets,  \* the passwords that have a hash
          Salts     \* salts of two characters

ASSUME SecretsAssumption == Secrets \subseteq Seq(Char)

SEGMENT_SIZE == 8
MAX_PASS_LEN == 16
SALT_SIZE == 2
KEYBUF_SIZE == MAX_PASS_LEN * SEGMENT_SIZE + SALT_SIZE

ASSUME SaltsAssumption == Salts \subseteq [1 .. SALT_SIZE -> Char]

UpTo(n, s) == SubSeq(s, 1, IF Len(s) < n THEN Len(s) ELSE n)

(* A hash: the method that stands before the cipher, "crypt" when none     *)
(* does, the blocks of the cipher and whether ",..." follows, the age of   *)
(* the password on HP-UX.  A hash of one block has 13 characters, each     *)
(* further block adds 11.                                                  *)
Hash(kind, salt, blocks) ==
    [kind |-> kind, salt |-> salt, blocks |-> blocks, aging |-> FALSE]

(* crypt(3) with a salt of two characters looks at eight of the password,  *)
(* with "$5$...", say, at all of them.                                     *)
Crypt(key, salt) == <<UpTo(SEGMENT_SIZE, key), salt>>

(* A salt of its own ends at "$" or after eight characters.                *)
crypt_md5(key, salt) == Hash("$1$", UpTo(8, salt), <<key>>)

(* keybuf for a salt that is a hash of the given number of blocks, or 0.   *)
keybuf_NeverCut(key, salt_blocks) == UpTo(KEYBUF_SIZE, key)

(* A hash of one block stands for the first segment only.                  *)
keybuf(key, salt_blocks) ==
    UpTo(IF salt_blocks = 1 THEN SEGMENT_SIZE ELSE KEYBUF_SIZE, key)

n_seg(keylen) ==
    IF keylen = 0 THEN 1
    ELSE LET n == 1 + (keylen - 1) \div SEGMENT_SIZE
         IN  IF n > MAX_PASS_LEN THEN MAX_PASS_LEN ELSE n

bigcrypt(key, salt, salt_blocks) ==
    LET buf == keybuf(key, salt_blocks)
        From(j) == SubSeq(buf, (j - 1) * SEGMENT_SIZE + 1, Len(buf))
        cipher[j \in 1 .. n_seg(Len(buf))] ==
            Crypt(From(j), IF j = 1 THEN salt ELSE cipher[j - 1])
    IN  Hash("crypt", salt, cipher)

strip_hpux_aging(hash) ==
    IF hash.kind = "crypt" THEN [hash EXCEPT !.aging = FALSE] ELSE hash

(* 0 when the password, which is not NULL here, belongs to the hash.       *)
verify_pwd(key, shadow, nullok) ==
    LET hash == strip_hpux_aging(shadow)
        pp == CASE hash.kind = "$1$" -> crypt_md5(key, hash.salt)
                [] hash.kind = "crypt" ->
                     bigcrypt(key, hash.salt, Len(hash.blocks))
                [] OTHER -> Hash(hash.kind, hash.salt, <<key>>)
    IN  CASE hash.kind = "empty" -> IF nullok THEN 0 ELSE 1
          [] hash.kind = "locked" -> 1
          [] OTHER -> IF pp = hash THEN 0 ELSE 1

(***************************************************************************)
(* Properties                                                              *)
(***************************************************************************)
(* The hashes of a password that may stand in /etc/shadow: by crypt(3), by *)
(* bigcrypt, with and without an age, and by the methods that have a name. *)
Stored(key, salt) ==
    LET bare == {Hash("crypt", salt, <<Crypt(key, salt)>>),
                 bigcrypt(key, salt, 0)}
    IN  bare \cup {[hash EXCEPT !.aging = TRUE] : hash \in bare}
             \cup {Hash(kind, salt, <<key>>) : kind \in {"$1$", "$5$"}}

(* What a hash of key says about p, as far as the hash goes.               *)
Agree(hash, p, key) ==
    CASE hash.kind # "crypt" -> p = key
      [] hash.kind = "crypt" /\ Len(hash.blocks) = 1 ->
           UpTo(8, p) = UpTo(8, key)
      [] OTHER -> UpTo(128, p) = UpTo(128, key)

(* Some hash of key, or none, decides otherwise about p than it should.    *)
Wrong(p, key, salt) ==
    \E nullok \in BOOLEAN :
       \/ \E hash \in Stored(key, salt) :
             Agree(hash, p, key) # (verify_pwd(p, hash, nullok) = 0)
       \/ verify_pwd(p, Hash("locked", salt, <<>>), nullok) = 0
       \/ nullok # (verify_pwd(p, Hash("empty", <<>>, <<>>), nullok) = 0)

Misjudged ==
    {trial[1] : trial \in {x \in Passwords \X Secrets \X Salts :
                              Wrong(x[1], x[2], x[3])}}

(* A hash accepts the password exactly if it agrees with the hash's own as *)
(* far as the hash goes: a longer password is not taken for a shorter one  *)
(* nor a shorter one for a longer, an age does not matter, a hash of one   *)
(* segment is not split; nothing opens a locked account, and an empty hash *)
(* is opened by everything or by nothing.                                  *)
StoredHashesAreExact == pw \notin Misjudged
=============================================================================
