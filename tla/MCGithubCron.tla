------------------------------ MODULE MCGithubCron ------------------------------
(* TLC instance of GithubCron.                                                *)
EXTENDS GithubCron
=============================================================================
