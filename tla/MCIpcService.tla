----------------------------- MODULE MCIpcService -----------------------------
\* Model-checking instance of IpcService.
EXTENDS IpcService
===============================================================================
