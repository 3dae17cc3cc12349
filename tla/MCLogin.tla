------------------------------ MODULE MCLogin ------------------------------
(* An instance of SshLogin: servers that differ in what they offer. *)
EXTENDS SshLogin

Methods ==
  [kex |-> <<"curve25519-sha256", "ecdh-nistp256", "ecdh-nistp521", "gex-sha256", "group16-sha512",
             "group18-sha512", "group14-sha256", "group14-sha1", "group1-sha1", "gex-sha1">>,
   hostkey |-> <<"ed25519", "ecdsa-256", "ecdsa-521", "rsa-sha2-512", "rsa-sha2-256", "ssh-rsa">>,
   crypt |-> <<"aes-gcm", "aes-ctr", "aes-cbc">>,
   mac |-> <<"hmac-sha2-256", "hmac-sha1">>,
   comp |-> <<"zlib@openssh.com", "zlib", "none">>]

Offer(method, key, cipher, zip, strict) ==
  [kex |-> {method}, hostkey |-> {key, "ssh-rsa"}, crypt |-> {cipher}, mac |-> {"hmac-sha1"},
   comp |-> {zip}, strict |-> strict]
Modern == Offer("curve25519-sha256", "ed25519", "aes-gcm", "none", TRUE)
First ==
  {Modern,
   Offer("ecdh-nistp256", "ecdsa-521", "aes-ctr", "zlib@openssh.com", TRUE),
   Offer("gex-sha1", "rsa-sha2-256", "aes-ctr", "zlib", FALSE),
   [Modern EXCEPT !.kex = {"sntrup761"}]}
Later ==
  {[Modern EXCEPT !.strict = FALSE],
   Offer("group14-sha256", "ssh-rsa", "aes-ctr", "zlib", FALSE),
   [Modern EXCEPT !.kex = {"sntrup761"}]}
=============================================================================
