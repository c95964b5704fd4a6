------------------------------ MODULE MCAgentRun -------------------------------
EXTENDS AgentRun
===============================================================================
